---- MODULE Spec2Model ----
(***************************************************************************)
(* NewDepths: bathymetry notification service.                             *)
(*                                                                         *)
(* State machine of the persistence layer (users, bounding boxes, data     *)
(* source catalog, freshness cache, data orders), of the web handlers that *)
(* mutate it, of the federated-login state token, of the identity          *)
(* dependency and of the notification worker.                              *)
(***************************************************************************)
EXTENDS Integers, Sequences, FiniteSets, Bags, TLC

(***************************************************************************)
(* Bounds of the model.                                                    *)
(***************************************************************************)
MaxUsers == 2
MaxBBoxId == 2
MaxOrderId == 2
MaxTime == 2
MaxCacheBoxes == 1
MaxSurveyTime == 2
MaxWorkerBoxes == 1
MaxNow == 6
MaxStates == 1
OwnedAtStart == 5
MaxUrls == 2
MaxInFlight == 2

\* data orders placed while requests interleave or two users poll
MaxPlaced == 1

None == "None"

Emails == {"a@x", "b@x"}
UserIds == 1..MaxUsers
Times == 1..MaxTime

(***************************************************************************)
(* Program constants.                                                      *)
(***************************************************************************)
\* seed.py:17-33, the rows the seed script inserts, in insertion order
data_sources == <<"multibeam", "csb0", "nos_survey">>

VARIABLES
  users,        \* table users:      set of [id, email, hashed_password]
  bboxes,       \* table bboxes:     set of [id, owner_id, box]
  data_types,   \* table data_types: set of [id, name]
  cache,        \* table cache_bbox_updates: bag of [bbox_id, data_type_id, most_recent_data]
                \* (the surrogate id of a row is never read; equal rows are counted)
  orders,       \* table data_orders: set of [id, bbox_id, user_id, data_type, last_status]
  next_id,      \* the autoincrement counters of the tables
  last_set,     \* history: (bbox_id, data_type_id) -> the most recent set_last_cached_date
                \* of the pair, NoCall when there was none since the box exists
  resp,         \* the outcome of the most recent operation
  w,            \* the notification worker: position and locals of worker.main
  auth,         \* the server process: its clock, auth.google.VALID_STATES and the
                \* state tokens (uuid4) drawn so far
  w_other,      \* a second worker process, started while the first runs: the one
                \* of the two that is not scheduled (w is the one that is)
  feed,         \* the upstream services and the past runs of the worker: for each
                \* (box, source) pair the surveys the service holds and the
                \* surveys runs have counted as new so far
  pending,      \* the requests in flight in the server's thread pool: handlers
                \* that have made their checks and not yet their write
  session       \* a client: the token the last login set as cookie (its holder
                \* keeps the value) and whether GET /logout was answered since

dbVars == <<users, bboxes, data_types, cache, orders, next_id>>
procVars == <<w, auth, session, w_other, feed, pending>>
vars == <<users, bboxes, data_types, cache, orders, next_id, last_set, resp, w, w_other, auth,
          session, feed, pending>>

\* A box that is_valid_bbox accepts: (top_left_lat, top_left_lon, bottom_right_lat, bottom_right_lon)
GoodBox == <<(<<50>>), (<<-10>>), (<<40>>), (<<0>>)>>

EmptyDB ==
  /\ users = {}
  /\ bboxes = {}
  /\ data_types = {}
  /\ cache = EmptyBag
  /\ orders = {}
  /\ next_id = [users |-> 1, bboxes |-> 1, data_types |-> 1, orders |-> 1]

(***************************************************************************)
(* Query helpers of the data-access layer.                                 *)
(***************************************************************************)
get_user_by_id(user_id) ==
  IF \E u \in users : u.id = user_id
    THEN CHOOSE u \in users : u.id = user_id
    ELSE None

get_user_by_email(email) ==
  IF \E u \in users : u.email = email
    THEN CHOOSE u \in users : u.email = email
    ELSE None

get_bbox_by_id(bbox_id) ==
  IF \E b \in bboxes : b.id = bbox_id
    THEN CHOOSE b \in bboxes : b.id = bbox_id
    ELSE None

get_user_bboxes(user_id) == {b \in bboxes : b.owner_id = user_id}

\* the rows the query of get_last_cached_date / set_last_cached_date selects
CacheRows(rows, bbox_id, data_type_id) ==
  {r \in BagToSet(rows) : r.bbox_id = bbox_id /\ r.data_type_id = data_type_id}

\* the number of rows that query returns
RECURSIVE SumCopies(_, _)
SumCopies(rows, S) ==
  IF S = {} THEN 0
  ELSE LET r == CHOOSE x \in S : TRUE IN CopiesIn(r, rows) + SumCopies(rows, S \ {r})

CountRows(rows, bbox_id, data_type_id) ==
  SumCopies(rows, CacheRows(rows, bbox_id, data_type_id))

\* the cache table without the rows of a box
WithoutBox(rows, bbox_id) ==
  [r \in {x \in BagToSet(rows) : x.bbox_id # bbox_id} |-> rows[r]]

\* the number of cache rows of a box
BoxCacheRows(rows, bbox_id) ==
  SumCopies(rows, {x \in BagToSet(rows) : x.bbox_id = bbox_id})

(***************************************************************************)
(* Data-access operations (db/crud.py).  Each one is a committed unit.     *)
(***************************************************************************)

\* crud.create_user: the row takes email and hashed_password of the input;
\* users.email is unique (models.py:11), a duplicate fails the commit.
create_user(email, hashed_password) ==
  /\ next_id.users <= MaxUsers
  /\ IF \E u \in users : u.email = email
       THEN /\ resp' = [op |-> "create_user", error |-> "IntegrityError"]
            /\ UNCHANGED dbVars
       ELSE /\ users' = users \cup
                 {[id |-> next_id.users, email |-> email,
                   hashed_password |-> hashed_password, google_sub |-> None]}
            /\ next_id' = [next_id EXCEPT !.users = @ + 1]
            /\ resp' = [op |-> "create_user", error |-> None]
            /\ UNCHANGED <<bboxes, data_types, cache, orders>>
  /\ UNCHANGED last_set

\* seed.main: insert each source whose name is not in the catalog yet, one commit.
RECURSIVE SeedRows(_, _, _)
SeedRows(i, rows, id) ==
  IF i > Len(data_sources) THEN rows
  ELSE IF \E d \in rows : d.name = data_sources[i]
    THEN SeedRows(i + 1, rows, id)
    ELSE SeedRows(i + 1, rows \cup {[id |-> id, name |-> data_sources[i]]}, id + 1)

\* seed.main without the lookup by name: every source is inserted
seed_NoLookup ==
  /\ data_types' = data_types \cup
       {[id |-> next_id.data_types + i - 1, name |-> data_sources[i]]
          : i \in 1..Len(data_sources)}
  /\ next_id' = [next_id EXCEPT !.data_types = @ + Len(data_sources)]
  /\ resp' = [op |-> "seed", error |-> None,
              added |-> Cardinality(data_types') - Cardinality(data_types)]
  /\ UNCHANGED <<users, bboxes, cache, orders, last_set>>

seed ==
  /\ data_types' = SeedRows(1, data_types, next_id.data_types)
  /\ next_id' = [next_id EXCEPT
                   !.data_types = @ + Cardinality(data_types') - Cardinality(data_types)]
  /\ resp' = [op |-> "seed", error |-> None,
              added |-> Cardinality(data_types') - Cardinality(data_types)]
  /\ UNCHANGED <<users, bboxes, cache, orders, last_set>>

\* the row crud.create_user_bbox adds
NewBBox(box, user_id) == [id |-> next_id.bboxes, owner_id |-> user_id, box |-> box]

\* crud.create_user_bbox
create_user_bbox(box, user_id) ==
  /\ next_id.bboxes <= MaxBBoxId
  /\ bboxes' = bboxes \cup {NewBBox(box, user_id)}
  /\ next_id' = [next_id EXCEPT !.bboxes = @ + 1]
  /\ resp' = [op |-> "create_user_bbox"]
  /\ UNCHANGED <<users, data_types, cache, orders, last_set>>

\* history entry of a pair no set_last_cached_date was made for
NoCall == [called |-> FALSE, value |-> 0]

\* the history of the calls for the pairs of a box ends with the box
ForgetBox(h, bbox_id) ==
  [p \in DOMAIN h |-> IF p[1] = bbox_id THEN NoCall ELSE h[p]]

\* the history entry of a call: its value
Remember(h, bbox_id, data_type_id, most_recent_data) ==
  [h EXCEPT ![<<bbox_id, data_type_id>>] = [called |-> TRUE, value |-> most_recent_data]]

\* crud.delete_user_bbox with the delete of the data orders left out
delete_user_bbox_KeepOrders(bbox_id, user_id) ==
  LET found == {b \in bboxes : b.id = bbox_id /\ b.owner_id = user_id} IN
  /\ IF found # {}
       THEN /\ cache' = WithoutBox(cache, bbox_id)
            /\ orders' = orders
            /\ bboxes' = bboxes \ found
            /\ last_set' = ForgetBox(last_set, bbox_id)
            /\ resp' = [op |-> "delete_user_bbox", bbox_id |-> bbox_id, user_id |-> user_id,
                        result |-> TRUE,
                        cache_rows |-> BoxCacheRows(cache, bbox_id),
                        order_rows |-> 0]
       ELSE /\ resp' = [op |-> "delete_user_bbox", bbox_id |-> bbox_id, user_id |-> user_id,
                        result |-> FALSE, cache_rows |-> 0, order_rows |-> 0]
            /\ UNCHANGED <<bboxes, cache, orders, last_set>>
  /\ UNCHANGED <<users, data_types, next_id>>

\* crud.delete_user_bbox: the box is looked up by id AND owner; when found, the
\* cache rows and the data orders of the box go with it in one commit.
\* cache_rows / order_rows are the row counts the two bulk deletes return.
delete_user_bbox(bbox_id, user_id) ==
  LET found == {b \in bboxes : b.id = bbox_id /\ b.owner_id = user_id} IN
  /\ IF found # {}
       THEN /\ cache' = WithoutBox(cache, bbox_id)
            /\ orders' = {o \in orders : o.bbox_id # bbox_id}
            /\ bboxes' = bboxes \ found
            /\ last_set' = ForgetBox(last_set, bbox_id)
            /\ resp' = [op |-> "delete_user_bbox", bbox_id |-> bbox_id, user_id |-> user_id,
                        result |-> TRUE,
                        cache_rows |-> BoxCacheRows(cache, bbox_id),
                        order_rows |-> Cardinality({o \in orders : o.bbox_id = bbox_id})]
       ELSE /\ resp' = [op |-> "delete_user_bbox", bbox_id |-> bbox_id, user_id |-> user_id,
                        result |-> FALSE, cache_rows |-> 0, order_rows |-> 0]
            /\ UNCHANGED <<bboxes, cache, orders, last_set>>
  /\ UNCHANGED <<users, data_types, next_id>>

\* crud.get_last_cached_date: one_or_none() over the rows of the pair; date is
\* <<>> for None and <<t>> for the stored time t
get_last_cached_date(bbox_id, data_type_id) ==
  LET n == CountRows(cache, bbox_id, data_type_id) IN
  IF n = 0 THEN [error |-> None, date |-> <<>>]
  ELSE IF n = 1
    THEN [error |-> None,
          date |-> <<(CHOOSE r \in CacheRows(cache, bbox_id, data_type_id) : TRUE).most_recent_data>>]
  ELSE [error |-> "MultipleResultsFound", date |-> <<>>]

NewCacheRow(bbox_id, data_type_id, most_recent_data) ==
  SetToBag({[bbox_id |-> bbox_id, data_type_id |-> data_type_id,
             most_recent_data |-> most_recent_data]})

\* the cache table after a set_last_cached_date that inserts without looking
UpsertCache_AlwaysInsert(rows, bbox_id, data_type_id, most_recent_data) ==
  rows (+) NewCacheRow(bbox_id, data_type_id, most_recent_data)

\* ForeignKey("bboxes.id") of models.CacheBoundingBoxUpdate.bbox_id and of
\* models.DataOrder.bbox_id: the database refuses a new row whose bbox_id is
\* the id of no box
ForeignKeyViolation(boxes, bbox_id) == \A b \in boxes : b.id # bbox_id

\* the cache table after set_last_cached_date (crud.py:114-134): update the row
\* of the pair when the query finds one, insert a row otherwise
UpsertCache(rows, bbox_id, data_type_id, most_recent_data) ==
  LET hit == CacheRows(rows, bbox_id, data_type_id) IN
  IF hit # {}
    THEN (rows (-) SetToBag(hit)) (+) NewCacheRow(bbox_id, data_type_id, most_recent_data)
    ELSE rows (+) NewCacheRow(bbox_id, data_type_id, most_recent_data)

\* crud.set_last_cached_date with no foreign key on the bbox_id of the new row
set_last_cached_date_NoForeignKey(bbox_id, data_type_id, most_recent_data) ==
  /\ IF CountRows(cache, bbox_id, data_type_id) > 1
       THEN /\ resp' = [op |-> "set_last_cached_date", error |-> "MultipleResultsFound",
                        bbox_id |-> bbox_id, data_type_id |-> data_type_id, updated |-> FALSE]
            /\ UNCHANGED <<cache, last_set>>
       ELSE /\ cache' = UpsertCache(cache, bbox_id, data_type_id, most_recent_data)
            /\ last_set' = Remember(last_set, bbox_id, data_type_id, most_recent_data)
            /\ resp' = [op |-> "set_last_cached_date", error |-> None,
                        bbox_id |-> bbox_id, data_type_id |-> data_type_id,
                        updated |-> CacheRows(cache, bbox_id, data_type_id) # {}]
  /\ UNCHANGED <<users, bboxes, data_types, orders, next_id>>

\* crud.set_last_cached_date; one_or_none() raises when the pair has several
\* rows; resp.updated tells whether the call took the update branch; the
\* commit of a new row raises IntegrityError when no box has its bbox_id
\* (models.CacheBoundingBoxUpdate.bbox_id is a ForeignKey("bboxes.id"))
set_last_cached_date(bbox_id, data_type_id, most_recent_data) ==
  /\ IF CountRows(cache, bbox_id, data_type_id) > 1
       THEN /\ resp' = [op |-> "set_last_cached_date", error |-> "MultipleResultsFound",
                        bbox_id |-> bbox_id, data_type_id |-> data_type_id, updated |-> FALSE]
            /\ UNCHANGED <<cache, last_set>>
     ELSE IF CacheRows(cache, bbox_id, data_type_id) = {} /\ ForeignKeyViolation(bboxes, bbox_id)
       THEN /\ resp' = [op |-> "set_last_cached_date", error |-> "IntegrityError",
                        bbox_id |-> bbox_id, data_type_id |-> data_type_id, updated |-> FALSE]
            /\ UNCHANGED <<cache, last_set>>
       ELSE /\ cache' = UpsertCache(cache, bbox_id, data_type_id, most_recent_data)
            /\ last_set' = Remember(last_set, bbox_id, data_type_id, most_recent_data)
            /\ resp' = [op |-> "set_last_cached_date", error |-> None,
                        bbox_id |-> bbox_id, data_type_id |-> data_type_id,
                        updated |-> CacheRows(cache, bbox_id, data_type_id) # {}]
  /\ UNCHANGED <<users, bboxes, data_types, orders, next_id>>

(***************************************************************************)
(* Order status polling (routers/noaa.py).  Texts are sequences of         *)
(* characters, so that lower() and the substring test are computed.        *)
(***************************************************************************)
UpperCase ==
  <<"A", "B", "C", "D", "E", "F", "G", "H", "I", "J", "K", "L", "M", "N",
    "O", "P", "Q", "R", "S", "T", "U", "V", "W", "X", "Y", "Z">>

LowerCase ==
  <<"a", "b", "c", "d", "e", "f", "g", "h", "i", "j", "k", "l", "m", "n",
    "o", "p", "q", "r", "s", "t", "u", "v", "w", "x", "y", "z">>

ToLower ==
  [c \in {UpperCase[n] : n \in 1..Len(UpperCase)} |->
     LowerCase[CHOOSE n \in 1..Len(UpperCase) : UpperCase[n] = c]]

\* str.lower()
lower(s) ==
  [k \in 1..Len(s) |-> IF s[k] \in DOMAIN ToLower THEN ToLower[s[k]] ELSE s[k]]

\* sub in s
Contains(sub, s) ==
  \E k \in 0..(Len(s) - Len(sub)) : SubSeq(s, k + 1, k + Len(sub)) = sub

\* s.split("/")[-1]
RECURSIVE LastSegment(_)
LastSegment(s) ==
  IF s = <<>> THEN <<>>
  ELSE IF s[Len(s)] = "/" THEN <<>>
  ELSE LastSegment(SubSeq(s, 1, Len(s) - 1)) \o <<s[Len(s)]>>

NOAA_PICKUP_URL ==
  <<"h", "t", "t", "p", "s", ":", "/", "/", "o", "r", "d", "e", "r", "-",
    "p", "i", "c", "k", "u", "p", ".", "s", "3", ".", "a", "m", "a", "z",
    "o", "n", "a", "w", "s", ".", "c", "o", "m">>

bucket_to_url(bucket_location) ==
  NOAA_PICKUP_URL \o <<"/">> \o LastSegment(bucket_location)

complete ==
  <<"c", "o", "m", "p", "l", "e", "t", "e">>

CompleteBang ==
  <<"C", "o", "m", "p", "l", "e", "t", "e", "!", " ">>

LinkOpen ==
  <<"<", "a", " ", "c", "l", "a", "s", "s", "=", "'", "u", "n", "d", "e",
    "r", "l", "i", "n", "e", "'", " ", "h", "r", "e", "f", "=", "'">>

LinkClose ==
  <<"'", ">", "D", "o", "w", "n", "l", "o", "a", "d", "<", "/", "a", ">">>

Created ==
  <<"C", "r", "e", "a", "t", "e", "d">>

Initialized ==
  <<"I", "n", "i", "t", "i", "a", "l", "i", "z", "e", "d">>

Processing ==
  <<"P", "r", "o", "c", "e", "s", "s", "i", "n", "g">>

OrderStatusUnknown ==
  <<"O", "r", "d", "e", "r", " ", "s", "t", "a", "t", "u", "s", " ", "u",
    "n", "k", "n", "o", "w", "n">>

\* url is <<>> for no output location, <<u>> for the location u
prettier_status(status, url) ==
  IF status = "complete"
  THEN CompleteBang \o (IF url # <<>> THEN LinkOpen \o url[1] \o LinkClose ELSE <<>>)
  ELSE IF status = "created" THEN Created
  ELSE IF status = "initialized" THEN Initialized
  ELSE IF status = "processing" THEN Processing
  ELSE OrderStatusUnknown


\* crud.create_data_order: last_status is forced to "Created"
create_data_order(user_id, bbox_id, data_type) ==
  /\ next_id.orders <= MaxOrderId
  /\ orders' = orders \cup
       {[id |-> next_id.orders, bbox_id |-> bbox_id, user_id |-> user_id,
         data_type |-> data_type, last_status |-> Created]}
  /\ next_id' = [next_id EXCEPT !.orders = @ + 1]
  /\ resp' = [op |-> "create_data_order"]
  /\ UNCHANGED <<users, bboxes, data_types, cache, last_set>>

(***************************************************************************)
(* The notification worker (worker.py).                                    *)
(***************************************************************************)
\* the orders in which a query without ORDER BY can return the rows of a table
Perms(S) ==
  {f \in [1..Cardinality(S) -> S] : \A a, b \in 1..Cardinality(S) : a # b => f[a] # f[b]}

\* datetime.fromtimestamp(ms / 1000.0): epoch milliseconds to a datetime, kept
\* in microseconds (the worker's zone has a fixed offset)
FromTimestamp(ms) == ms * 1000

\* s["attributes"][time_key] / 1000.0 > date.timestamp()
NewerThan(ms, date) == ms * 1000 > date

\* worker.get_query_params: "multibeam", a name containing "csb", or ValueError
QueryParamsKnown(name) == name = "multibeam" \/ name \in {"csb", "csb0", "csb1"}

\* worker.make_email_body: type_map[notification["data_type"].name]
type_map == {"multibeam", "csb0", "csb1"}

\* an exception leaves worker.main: the process ends; what the run had put in
\* the buckets and what it had sent is kept for the record
Crash(ww) ==
  [pc |-> "crashed", data_types |-> <<>>, bboxes |-> <<>>, i |-> 1, j |-> 1,
   date |-> <<>>, new_data |-> [kind |-> "unset", features |-> <<>>],
   surveys |-> <<>>, notifications_by_user |-> ww.notifications_by_user,
   emails |-> ww.emails]

WorkerIdle ==
  [pc |-> "idle", data_types |-> <<>>, bboxes |-> <<>>, i |-> 1, j |-> 1,
   date |-> <<>>, new_data |-> [kind |-> "unset", features |-> <<>>],
   surveys |-> <<>>, notifications_by_user |-> <<>>, emails |-> <<>>]

\* the server process right after import: the clock at ImportTime, no state
\* token issued
ImportTime == 0

AuthIdle == [now |-> ImportTime, VALID_STATES |-> {}, next_uuid |-> 1]

\* a client that has not logged in
NoSession == [token |-> <<>>, logged_out |-> FALSE]

Ended(pc) == pc \in {"idle", "exit1", "done", "crashed"}

\* what requests.get + res.json() can give get_data_for_bbox: a transport
\* failure or a status other than 200 (None), a body that is not the JSON the
\* sweep reads (raises outside the try), a body with an "error" key, or a
\* feature list ordered by time, newest first (orderByFields ... DESC)
SurveyTimes == 1..MaxSurveyTime

RECURSIVE Descending(_)
Descending(S) ==
  IF S = {} THEN <<>>
  ELSE LET m == CHOOSE x \in S : \A y \in S : y <= x IN <<m>> \o Descending(S \ {m})

FetchResults ==
  {[kind |-> k, features |-> <<>>] : k \in {"none", "malformed", "error"}}
    \cup {[kind |-> "features", features |-> Descending(S)] : S \in SUBSET SurveyTimes}

\* surveys = [s for s in surveys if s[time_key] / 1000.0 > date.timestamp()]
\* with >= in place of >
FilterNew_Inclusive(surveys, date) ==
  IF date # <<>>
    THEN SelectSeq(surveys, LAMBDA s : NewerThan(s, date[1]) \/ FromTimestamp(s) = date[1])
    ELSE surveys

\* worker.py:178-182: filter only when there is a cached date
FilterNew(surveys, date) ==
  IF date # <<>>
    THEN SelectSeq(surveys, LAMBDA s : NewerThan(s, date[1]))
    ELSE surveys

\* notifications_by_user[owner_id].append(n), a defaultdict(list) in key
\* insertion order
BucketIndex(buckets, user_id) ==
  IF \E k \in 1..Len(buckets) : buckets[k].user_id = user_id
    THEN CHOOSE k \in 1..Len(buckets) : buckets[k].user_id = user_id
    ELSE 0

\* the bucket keyed by the id of the box in place of the id of its owner
AppendNotification_ByBox(buckets, user_id, n) ==
  LET k == BucketIndex(buckets, n.bbox_id) IN
  IF k = 0
    THEN Append(buckets, [user_id |-> n.bbox_id, notifications |-> <<n>>])
    ELSE [buckets EXCEPT ![k].notifications = Append(@, n)]

AppendNotification(buckets, user_id, n) ==
  LET k == BucketIndex(buckets, user_id) IN
  IF k = 0
    THEN Append(buckets, [user_id |-> user_id, notifications |-> <<n>>])
    ELSE [buckets EXCEPT ![k].notifications = Append(@, n)]

\* the position after the pair (i, j) of the nested loops, "send" after the last
Advance(ww) ==
  IF ww.j < Len(ww.data_types) THEN [ww EXCEPT !.pc = "lookup", !.j = @ + 1]
  ELSE IF ww.i < Len(ww.bboxes) THEN [ww EXCEPT !.pc = "lookup", !.i = @ + 1, !.j = 1]
  ELSE [ww EXCEPT !.pc = "send"]

\* worker.main up to the sweep: the guard on the user count, then the catalog
\* and the boxes are read once
main_start ==
  /\ Ended(w.pc)
  /\ IF users = {}
       THEN w' = [WorkerIdle EXCEPT !.pc = "exit1"]
       ELSE \E ts \in Perms(data_types), bs \in Perms(bboxes) :
              w' = [WorkerIdle EXCEPT
                      !.data_types = ts, !.bboxes = bs,
                      !.pc = IF Len(ts) = 0 \/ Len(bs) = 0 THEN "send" ELSE "lookup"]
  /\ UNCHANGED <<dbVars, last_set, resp>>

\* check_for_new_data, worker.py:149-155: the cached date of the pair is read
\* and the query parameters are chosen (new_data and surveys of the previous
\* pair are dead here: both are assigned before they are read again)
check_lookup ==
  /\ w.pc = "lookup"
  /\ LET bbox == w.bboxes[w.i]
         data_type == w.data_types[w.j]
         got == get_last_cached_date(bbox.id, data_type.id)
     IN IF got.error # None \/ ~QueryParamsKnown(data_type.name)
          THEN w' = Crash(w)
          ELSE w' = [w EXCEPT !.pc = "fetch", !.date = got.date,
                              !.new_data = WorkerIdle.new_data, !.surveys = <<>>]
  /\ UNCHANGED <<dbVars, last_set, resp>>

\* check_for_new_data with the upsert made only when the filter left a survey
check_fetch_UpsertWhenNew ==
  /\ w.pc = "fetch"
  /\ \E new_data \in FetchResults :
       LET bbox == w.bboxes[w.i]
           data_type == w.data_types[w.j]
           got == [w EXCEPT !.new_data = new_data]
       IN IF new_data.kind = "malformed"
            THEN /\ w' = Crash(w)
                 /\ UNCHANGED <<dbVars, last_set, resp>>
          ELSE IF new_data.kind \in {"none", "error"}
            THEN /\ w' = Advance(got)
                 /\ UNCHANGED <<dbVars, last_set, resp>>
          ELSE IF new_data.features = <<>>
            THEN /\ w' = Advance([got EXCEPT !.surveys = <<>>])
                 /\ UNCHANGED <<dbVars, last_set, resp>>
          ELSE LET latest_datetime == FromTimestamp(new_data.features[1])
                   surveys == FilterNew(new_data.features, w.date)
                   n == [bbox_id |-> bbox.id, data_type |-> data_type.name,
                         new_surveys |-> surveys]
               IN /\ IF surveys # <<>>
                       THEN set_last_cached_date(bbox.id, data_type.id, latest_datetime)
                       ELSE /\ resp' = [op |-> "set_last_cached_date", error |-> None]
                            /\ UNCHANGED <<dbVars, last_set>>
                  /\ IF resp'.error # None
                       THEN w' = Crash(w)
                       ELSE w' = Advance(
                              [got EXCEPT
                                 !.surveys = surveys,
                                 !.notifications_by_user =
                                    IF surveys # <<>>
                                      THEN AppendNotification(@, bbox.owner_id, n)
                                      ELSE @])

\* check_for_new_data, worker.py:157-195: the answer of the upstream arrives;
\* nothing usable moves on to the next pair; otherwise the cache is upserted
\* with the time of the first record and the surveys left by the filter, if
\* any, are appended to the bucket of the owner of the box
check_fetch ==
  /\ w.pc = "fetch"
  /\ \E new_data \in FetchResults :
       LET bbox == w.bboxes[w.i]
           data_type == w.data_types[w.j]
           got == [w EXCEPT !.new_data = new_data]
       IN IF new_data.kind = "malformed"
            THEN /\ w' = Crash(w)
                 /\ UNCHANGED <<dbVars, last_set, resp>>
          ELSE IF new_data.kind \in {"none", "error"}
            THEN /\ w' = Advance(got)
                 /\ UNCHANGED <<dbVars, last_set, resp>>
          ELSE IF new_data.features = <<>>
            THEN /\ w' = Advance([got EXCEPT !.surveys = <<>>])
                 /\ UNCHANGED <<dbVars, last_set, resp>>
          ELSE LET latest_datetime == FromTimestamp(new_data.features[1])
                   surveys == FilterNew(new_data.features, w.date)
                   n == [bbox_id |-> bbox.id, data_type |-> data_type.name,
                         new_surveys |-> surveys]
               IN /\ set_last_cached_date(bbox.id, data_type.id, latest_datetime)
                  /\ IF resp'.error # None
                       THEN w' = Crash(w)
                       ELSE w' = Advance(
                              [got EXCEPT
                                 !.surveys = surveys,
                                 !.notifications_by_user =
                                    IF surveys # <<>>
                                      THEN AppendNotification(@, bbox.owner_id, n)
                                      ELSE @])

\* the send loop of worker.main over the first k buckets: a bucket whose user
\* or email is missing is skipped; an unknown source name raises in
\* make_email_body; the send of bucket raise_at raises
RECURSIVE SendLoop(_, _, _, _)
SendLoop(buckets, k, raise_at, sent) ==
  IF k > Len(buckets) THEN [pc |-> "done", emails |-> sent]
  ELSE LET user == get_user_by_id(buckets[k].user_id) IN
    IF \A u \in users : u.id # buckets[k].user_id
      THEN SendLoop(buckets, k + 1, raise_at, sent)
    ELSE IF \E m \in 1..Len(buckets[k].notifications) :
              buckets[k].notifications[m].data_type \notin type_map
      THEN [pc |-> "crashed", emails |-> sent]
    ELSE IF k = raise_at THEN [pc |-> "crashed", emails |-> sent]
    ELSE SendLoop(buckets, k + 1, raise_at,
                  Append(sent, [to |-> user.email, user_id |-> user.id,
                                notifications |-> buckets[k].notifications]))

\* worker.main, worker.py:217-234
send_notifications ==
  /\ w.pc = "send"
  /\ \E raise_at \in 0..Len(w.notifications_by_user) :
       LET r == SendLoop(w.notifications_by_user, 1, raise_at, <<>>) IN
       w' = [Crash([w EXCEPT !.emails = r.emails]) EXCEPT !.pc = r.pc]
  /\ UNCHANGED <<dbVars, last_set, resp>>

(***************************************************************************)
(* Databases the program reaches before the operations under study run:    *)
(* the catalog after seed.main, users after registrations.                 *)
(***************************************************************************)
SeededCatalog == SeedRows(1, {}, 1)

Registered(n) ==
  {[id |-> i, email |-> (IF i = 1 THEN "a@x" ELSE "b@x"),
    hashed_password |-> "hash", google_sub |-> None] : i \in 1..n}

PairIds == (1..(MaxBBoxId + 1)) \X (1..Len(data_sources))

\* no survey upstream, none counted as new
NoFeed == [upstream |-> [p \in PairIds |-> {}], reported |-> [p \in PairIds |-> {}]]

(***************************************************************************)
(* SpecCrud: boxes, cache rows and data orders are created and boxes are   *)
(* deleted, one data-access call at a time, by two registered users.       *)
(* delete_user_bbox is called with any box id and any user id.  Cache rows *)
(* are written once per pair, for the catalog rows the worker writes them  *)
(* for (get_query_params raises for nos_survey before the cache write).    *)
(***************************************************************************)
InitCrud ==
  /\ users = Registered(2)
  /\ bboxes = {}
  /\ data_types = SeededCatalog
  /\ cache = EmptyBag
  /\ orders = {}
  /\ next_id = [users |-> 3, bboxes |-> 1, data_types |-> 4, orders |-> 1]
  /\ last_set = [p \in PairIds |-> NoCall]
  /\ resp = [op |-> "init"]
  /\ w = WorkerIdle
  /\ auth = AuthIdle
  /\ session = NoSession
  /\ w_other = WorkerIdle
  /\ feed = NoFeed
  /\ pending = {}

NextCrud ==
  \/ \E u \in users : create_user_bbox(GoodBox, u.id) /\ UNCHANGED procVars
  \/ \E b \in 1..(MaxBBoxId + 1), u \in 1..2 :
       delete_user_bbox(b, u) /\ UNCHANGED procVars
  \/ \E b \in bboxes, d \in {x \in data_types : x.name # "nos_survey"} :
       /\ CountRows(cache, b.id, d.id) = 0
       /\ set_last_cached_date(b.id, d.id, 1)
       /\ UNCHANGED procVars
  \/ \E b \in bboxes : create_data_order(b.owner_id, b.id, "csb") /\ UNCHANGED procVars

SpecCrud == InitCrud /\ [][NextCrud]_vars

(***************************************************************************)
(* SpecCache: the freshness cache under set_last_cached_date calls made    *)
(* one at a time for the boxes and catalog rows that exist, while boxes    *)
(* come and go.                                                            *)
(***************************************************************************)
InitCache ==
  /\ users = Registered(1)
  /\ bboxes = {}
  /\ data_types = SeededCatalog
  /\ cache = EmptyBag
  /\ orders = {}
  /\ next_id = [users |-> 2, bboxes |-> 1, data_types |-> 4, orders |-> 1]
  /\ last_set = [p \in PairIds |-> NoCall]
  /\ resp = [op |-> "init"]
  /\ w = WorkerIdle
  /\ auth = AuthIdle
  /\ session = NoSession
  /\ w_other = WorkerIdle
  /\ feed = NoFeed
  /\ pending = {}

NextCache ==
  \/ \E u \in users :
       /\ next_id.bboxes <= MaxCacheBoxes
       /\ create_user_bbox(GoodBox, u.id)
       /\ UNCHANGED procVars
  \/ \E b \in bboxes : delete_user_bbox(b.id, b.owner_id) /\ UNCHANGED procVars
  \/ \E b \in bboxes, d \in data_types, t \in Times :
       set_last_cached_date(b.id, d.id, t) /\ UNCHANGED procVars

(***************************************************************************)
(* SpecWorker: runs of the worker, one at a time, over a database that     *)
(* users, the seed script and new boxes change between the runs (the       *)
(* process of the previous run has exited by then).                        *)
(***************************************************************************)
InitWorker ==
  /\ EmptyDB
  /\ last_set = [p \in PairIds |-> NoCall]
  /\ resp = [op |-> "init"]
  /\ w = WorkerIdle
  /\ auth = AuthIdle
  /\ session = NoSession
  /\ w_other = WorkerIdle
  /\ feed = NoFeed
  /\ pending = {}

NextWorker ==
  \/ \E e \in Emails :
       Ended(w.pc) /\ create_user(e, "hash") /\ w' = WorkerIdle /\ UNCHANGED <<auth, session, w_other, feed, pending>>
  \/ Ended(w.pc) /\ data_types = {} /\ seed /\ w' = WorkerIdle /\ UNCHANGED <<auth, session, w_other, feed, pending>>
  \/ \E u \in users :
       /\ Ended(w.pc)
       /\ next_id.bboxes <= MaxWorkerBoxes
       /\ create_user_bbox(GoodBox, u.id)
       /\ w' = WorkerIdle
       /\ UNCHANGED <<auth, session, w_other, feed, pending>>
  \/ main_start /\ UNCHANGED <<auth, session, w_other, feed, pending>>
  \/ check_lookup /\ UNCHANGED <<auth, session, w_other, feed, pending>>
  \/ check_fetch /\ UNCHANGED <<auth, session, w_other, feed, pending>>
  \/ send_notifications /\ UNCHANGED <<auth, session, w_other, feed, pending>>

SpecWorker == InitWorker /\ [][NextWorker]_vars

SpecCache == InitCache /\ [][NextCache]_vars

(***************************************************************************)
(* C1. delete_user_bbox(bbox_id, user_id): when the box exists and is      *)
(* owned by user_id, the box, every cache row of the box and every data    *)
(* order of the box are removed (and nothing else) and the call reports    *)
(* true; when the box does not exist or has another owner, boxes, cache    *)
(* rows and data orders are unchanged and the call reports false.          *)
(***************************************************************************)
DeleteOutcome ==
  resp'.op = "delete_user_bbox" =>
    LET b == resp'.bbox_id
        u == resp'.user_id
    IN IF \E x \in bboxes : x.id = b /\ x.owner_id = u
         THEN /\ resp'.result = TRUE
              /\ bboxes' = {x \in bboxes : x.id # b}
              /\ orders' = {o \in orders : o.bbox_id # b}
              /\ \A r \in BagToSet(cache) \cup BagToSet(cache') :
                   CopiesIn(r, cache') = IF r.bbox_id = b THEN 0 ELSE CopiesIn(r, cache)
         ELSE /\ resp'.result = FALSE
              /\ bboxes' = bboxes
              /\ orders' = orders
              /\ cache' = cache

C1_DeleteCascade == [][DeleteOutcome]_vars

\* a box with 2 data orders and 1 cache row was deleted by its owner, and
\* another box kept its own cache row
C1_Witness ==
  /\ resp.op = "delete_user_bbox"
  /\ resp.result = TRUE
  /\ resp.order_rows = 2
  /\ resp.cache_rows = 1
  /\ \A b \in bboxes : b.id # resp.bbox_id
  /\ \E b \in bboxes : BoxCacheRows(cache, b.id) = 1

(***************************************************************************)
(* C2. Under set_last_cached_date calls made one at a time, every          *)
(* (bbox_id, data_type_id) pair has at most one cache row, and the pair of *)
(* the most recent call has exactly one row, holding the value of that     *)
(* call.                                                                   *)
(***************************************************************************)
C2_OneRowPerPair ==
  \A p \in PairIds :
    /\ CountRows(cache, p[1], p[2]) <= 1
    /\ \A r \in CacheRows(cache, p[1], p[2]) :
         last_set[p].called /\ r.most_recent_data = last_set[p].value
    /\ last_set[p].called => CountRows(cache, p[1], p[2]) = 1

\* a pair that held 1 was set again, to 2: one row, holding 2, while another
\* pair still holds its own value
C2_Witness ==
  /\ resp.op = "set_last_cached_date"
  /\ resp.updated
  /\ last_set[<<resp.bbox_id, resp.data_type_id>>].value = 2
  /\ CountRows(cache, resp.bbox_id, resp.data_type_id) = 1
  /\ \E p \in PairIds : last_set[p].called /\ last_set[p].value = 1

(***************************************************************************)
(* C3. In the worker sweep, the surveys reported as new for a (box,        *)
(* source) pair are, when the pair had a cached time D, exactly the        *)
(* fetched surveys whose time is strictly greater than D, and, when the    *)
(* pair had no cached time, all the fetched surveys.                       *)
(***************************************************************************)
SeqSet(q) == {q[k] : k \in 1..Len(q)}

\* the surveys the buckets of a run hold for a pair
ReportedNew(ww, bbox_id, name) ==
  UNION {UNION {SeqSet(ww.notifications_by_user[k].notifications[m].new_surveys) :
                  m \in {x \in 1..Len(ww.notifications_by_user[k].notifications) :
                           /\ ww.notifications_by_user[k].notifications[x].bbox_id = bbox_id
                           /\ ww.notifications_by_user[k].notifications[x].data_type = name}} :
           k \in 1..Len(ww.notifications_by_user)}

FilterOutcome ==
  (w.pc = "fetch" /\ w'.new_data.kind = "features" /\ w'.new_data.features # <<>>) =>
    LET fetched == SeqSet(w'.new_data.features)
        bbox == w.bboxes[w.i]
        data_type == w.data_types[w.j]
    IN /\ ReportedNew(w, bbox.id, data_type.name) = {}
       /\ ReportedNew(w', bbox.id, data_type.name) =
            IF w.date = <<>> THEN fetched
            ELSE {s \in fetched : s * 1000 > w.date[1]}

C3_FilterStrictlyNewer == [][FilterOutcome]_vars

\* the pair had the cached time of survey 1; surveys 2 and 1 were fetched;
\* survey 2 alone was reported
C3_Witness ==
  /\ w.pc \in {"lookup", "send"}
  /\ w.date = <<1000>>
  /\ w.new_data.features = <<2, 1>>
  /\ w.surveys = <<2>>
  /\ \E k \in 1..Len(w.notifications_by_user) :
       \E m \in 1..Len(w.notifications_by_user[k].notifications) :
         w.notifications_by_user[k].notifications[m].new_surveys = <<2>>

(***************************************************************************)
(* C4. In one worker run each user receives at most one email, and a user  *)
(* with at least one (box, source) pair with new surveys receives exactly  *)
(* one email, which holds the findings of all such pairs of that user.     *)
(***************************************************************************)
EmailsTo(ww, user_id) == SelectSeq(ww.emails, LAMBDA e : e.user_id = user_id)

FindingsOf(ww, user_id) ==
  LET k == BucketIndex(ww.notifications_by_user, user_id) IN
  IF k = 0 THEN <<>> ELSE ww.notifications_by_user[k].notifications

C4_OneEmailPerUser ==
  w.pc \in {"done", "crashed"} =>
    \A u \in users :
      /\ Len(EmailsTo(w, u.id)) <= 1
      /\ FindingsOf(w, u.id) # <<>> =>
           /\ Len(EmailsTo(w, u.id)) = 1
           /\ EmailsTo(w, u.id)[1].notifications = FindingsOf(w, u.id)

BucketLocations ==
  {<<"s", "3", ":", "/", "/", "o", "r", "d", "e", "r", "-", "p", "i", "c", "k", "u", "p",
     "/", "u", "1">>}

\* what the check_status_url answers: the request or its JSON decoding
\* raises, or a JSON object with or without "status" and "output_location"
UpstreamStatuses ==
  {"complete", "created", "initialized", "processing", "COMPLETE", "failed"}

UpstreamReplies ==
  {[kind |-> "raises", has_status |-> FALSE, status |-> "", output_location |-> <<>>]}
  \cup {[kind |-> "json", has_status |-> FALSE, status |-> "", output_location |-> <<>>]}
  \cup {[kind |-> "json", has_status |-> TRUE, status |-> s, output_location |-> l] :
          s \in UpstreamStatuses, l \in {<<>>} \cup {<<b>> : b \in BucketLocations}}

get_data_order_by_id(order_id) ==
  IF \E o \in orders : o.id = order_id
  THEN CHOOSE o \in orders : o.id = order_id
  ELSE None

\* the poll with a failure that leaves the stored text as it was created
PollStatus_KeepCreated(res) ==
  IF res.kind = "raises" \/ ~res.has_status
  THEN Created
  ELSE prettier_status(res.status,
         IF res.output_location # <<>>
         THEN <<bucket_to_url(res.output_location[1])>> ELSE <<>>)

\* the poll of lines 163-170: the new last_status
PollStatus(res) ==
  IF res.kind = "raises" \/ ~res.has_status
  THEN prettier_status("unknown", <<>>)
  ELSE prettier_status(res.status,
         IF res.output_location # <<>>
         THEN <<bucket_to_url(res.output_location[1])>> ELSE <<>>)

http_status_CaseSensitive(last_status) ==
  IF ~Contains(complete, last_status) THEN 200 ELSE 286

http_status(last_status) ==
  IF ~Contains(complete, lower(last_status)) THEN 200 ELSE 286

\* order_status without the test of the order's user
order_status_NoOwnerTest(order_id, user, hx_request) ==
  /\ UNCHANGED <<users, bboxes, data_types, cache, next_id, last_set>>
  /\ IF ~hx_request
     THEN /\ resp' = [op |-> "order_status", status |-> 307, location |-> "/account",
                          order_id |-> order_id, user_id |-> user.id, polled |-> FALSE]
          /\ UNCHANGED orders
     ELSE IF \A o \in orders : o.id # order_id
     THEN /\ resp' = [op |-> "order_status", status |-> 404,
                      order_id |-> order_id, user_id |-> user.id, polled |-> FALSE]
          /\ UNCHANGED orders
     ELSE LET order == get_data_order_by_id(order_id) IN
          IF ~Contains(complete, lower(order.last_status))
          THEN \E res \in UpstreamReplies :
                 /\ orders' = (orders \ {order}) \cup
                                {[order EXCEPT !.last_status = PollStatus(res)]}
                 /\ resp' = [op |-> "order_status",
                             status |-> http_status(PollStatus(res)),
                             body |-> PollStatus(res), order_id |-> order.id,
                             user_id |-> user.id, polled |-> TRUE,
                             failed |-> res.kind = "raises" \/ ~res.has_status]
          ELSE /\ UNCHANGED orders
               /\ resp' = [op |-> "order_status",
                           status |-> http_status(order.last_status),
                           body |-> order.last_status, order_id |-> order.id,
                           user_id |-> user.id, polled |-> FALSE, failed |-> FALSE]

\* order_status without the test that spares the tracking URL
order_status_AlwaysPoll(order_id, user, hx_request) ==
  /\ UNCHANGED <<users, bboxes, data_types, cache, next_id, last_set>>
  /\ IF ~hx_request
     THEN /\ resp' = [op |-> "order_status", status |-> 307, location |-> "/account",
                          order_id |-> order_id, user_id |-> user.id, polled |-> FALSE]
          /\ UNCHANGED orders
     ELSE IF \A o \in orders : o.id # order_id
     THEN /\ resp' = [op |-> "order_status", status |-> 404,
                      order_id |-> order_id, user_id |-> user.id, polled |-> FALSE]
          /\ UNCHANGED orders
     ELSE LET order == get_data_order_by_id(order_id) IN
          IF order.user_id # user.id
          THEN /\ resp' = [op |-> "order_status", status |-> 403,
                           order_id |-> order_id, user_id |-> user.id, polled |-> FALSE]
               /\ UNCHANGED orders
          ELSE IF order.last_status = order.last_status
          THEN \E res \in UpstreamReplies :
                 /\ orders' = (orders \ {order}) \cup
                                {[order EXCEPT !.last_status = PollStatus(res)]}
                 /\ resp' = [op |-> "order_status",
                             status |-> http_status(PollStatus(res)),
                             body |-> PollStatus(res), order_id |-> order.id,
                             user_id |-> user.id, polled |-> TRUE,
                             failed |-> res.kind = "raises" \/ ~res.has_status]
          ELSE /\ UNCHANGED orders
               /\ resp' = [op |-> "order_status",
                           status |-> http_status(order.last_status),
                           body |-> order.last_status, order_id |-> order.id,
                           user_id |-> user.id, polled |-> FALSE, failed |-> FALSE]

order_status(order_id, user, hx_request) ==
  /\ UNCHANGED <<users, bboxes, data_types, cache, next_id, last_set>>
  /\ IF ~hx_request
     THEN /\ resp' = [op |-> "order_status", status |-> 307, location |-> "/account",
                          order_id |-> order_id, user_id |-> user.id, polled |-> FALSE]
          /\ UNCHANGED orders
     ELSE IF \A o \in orders : o.id # order_id
     THEN /\ resp' = [op |-> "order_status", status |-> 404,
                      order_id |-> order_id, user_id |-> user.id, polled |-> FALSE]
          /\ UNCHANGED orders
     ELSE LET order == get_data_order_by_id(order_id) IN
          IF order.user_id # user.id
          THEN /\ resp' = [op |-> "order_status", status |-> 403,
                           order_id |-> order_id, user_id |-> user.id, polled |-> FALSE]
               /\ UNCHANGED orders
          ELSE IF ~Contains(complete, lower(order.last_status))
          THEN \E res \in UpstreamReplies :
                 /\ orders' = (orders \ {order}) \cup
                                {[order EXCEPT !.last_status = PollStatus(res)]}
                 /\ resp' = [op |-> "order_status",
                             status |-> http_status(PollStatus(res)),
                             body |-> PollStatus(res), order_id |-> order.id,
                             user_id |-> user.id, polled |-> TRUE,
                             failed |-> res.kind = "raises" \/ ~res.has_status]
          ELSE /\ UNCHANGED orders
               /\ resp' = [op |-> "order_status",
                           status |-> http_status(order.last_status),
                           body |-> order.last_status, order_id |-> order.id,
                           user_id |-> user.id, polled |-> FALSE, failed |-> FALSE]

(***************************************************************************)
(* SpecOrder: two registered users with one box each place data orders and *)
(* poll the status of any order id, with and without the hx-request        *)
(* header, against every upstream answer.                                  *)
(***************************************************************************)
InitOrder ==
  /\ users = Registered(2)
  /\ bboxes = {[id |-> i, owner_id |-> i, box |-> GoodBox] : i \in 1..2}
  /\ data_types = SeededCatalog
  /\ cache = EmptyBag
  /\ orders = {}
  /\ next_id = [users |-> 3, bboxes |-> 3, data_types |-> 4, orders |-> 1]
  /\ last_set = [p \in PairIds |-> NoCall]
  /\ resp = [op |-> "init"]
  /\ w = WorkerIdle
  /\ auth = AuthIdle
  /\ session = NoSession
  /\ w_other = WorkerIdle
  /\ feed = NoFeed
  /\ pending = {}

NextOrder ==
  \/ \E b \in bboxes :
       create_data_order(b.owner_id, b.id, "multibeam") /\ UNCHANGED procVars
  \/ \E order_id \in 1..(MaxOrderId + 1), user \in users, hx_request \in BOOLEAN :
       order_status(order_id, user, hx_request) /\ UNCHANGED procVars

SpecOrder == InitOrder /\ [][NextOrder]_vars

(***************************************************************************)
(* C5. order_status answers the owner's partial-page request with 286      *)
(* exactly when the order's last_status, as it stands after the poll,      *)
(* contains "complete" in any letter case, and with 200 otherwise; the     *)
(* texts Created, Initialized, Processing and Order status unknown get     *)
(* 200.                                                                    *)
(***************************************************************************)
CompleteAnyCase ==
  <<{"c", "C"}, {"o", "O"}, {"m", "M"}, {"p", "P"}, {"l", "L"}, {"e", "E"},
    {"t", "T"}, {"e", "E"}>>

SaysComplete(s) ==
  \E k \in 0..(Len(s) - Len(CompleteAnyCase)) :
    \A m \in 1..Len(CompleteAnyCase) : s[k + m] \in CompleteAnyCase[m]

OwnerPolled == resp.op = "order_status" /\ resp.status \notin {307, 404, 403}

GOOGLE_CLIENT_ID == "client-id"

StateMinutes == 5

\* the dataclass default of expires, evaluated once, when the class is defined
DefaultExpires == ImportTime + StateMinutes

HMAC(key, msg) == [key |-> key, msg |-> msg]

AuthStateToken(token) == [token |-> token, expires |-> DefaultExpires, data |-> None]

Serialized(state) ==
  [kind |-> "json", token |-> <<state.token>>, expires |-> <<state.expires>>,
   data |-> state.data]

to_state_str(state) ==
  [b64 |-> TRUE, parts |-> 2, serialized |-> Serialized(state),
   hash |-> HMAC(GOOGLE_CLIENT_ID, Serialized(state))]

Raised == [raised |-> TRUE, value |-> <<>>]

Returned(v) == [raised |-> FALSE, value |-> v]

\* the body of the try block of from_state_str
ParseStateStr(token) ==
  IF ~token.b64 THEN Raised                          \* b64decode / decode
  ELSE IF token.parts # 2 THEN Raised                \* serialized, hash = ...
  ELSE IF token.serialized.kind # "json" THEN Raised \* json.loads
  ELSE IF token.hash # HMAC(GOOGLE_CLIENT_ID, token.serialized) THEN Returned(<<>>)
  ELSE IF token.serialized.token = <<>> \/ token.serialized.expires = <<>>
  THEN Raised                                        \* data["token"], fromisoformat
  ELSE Returned(<<[token |-> token.serialized.token[1],
                   expires |-> token.serialized.expires[1],
                   data |-> token.serialized.data]>>)

from_state_str_NoVerify(token) ==
  IF ~token.b64 \/ token.parts # 2 \/ token.serialized.kind # "json"
     \/ token.serialized.token = <<>> \/ token.serialized.expires = <<>>
  THEN Returned(<<>>)
  ELSE Returned(<<[token |-> token.serialized.token[1],
                   expires |-> token.serialized.expires[1],
                   data |-> token.serialized.data]>>)

\* try: ... except Exception: return None
from_state_str(token) ==
  IF ParseStateStr(token).raised THEN Returned(<<>>) ELSE ParseStateStr(token)

validate_state_NoExpiry(state, a) ==
  IF state = <<>> THEN FALSE
  ELSE state[1].token \in a.VALID_STATES

\* state is <<>> (None) or <<an AuthStateToken>>
validate_state(state, a) ==
  IF state = <<>> THEN FALSE
  ELSE IF state[1].expires < a.now THEN FALSE
  ELSE IF state[1].token \notin a.VALID_STATES THEN FALSE
  ELSE state[1].token \in a.VALID_STATES

\* state = AuthStateToken(token=str(uuid.uuid4())); VALID_STATES.add(state.token);
\* the value is the state parameter of the returned url
generate_google_auth_url(a) ==
  [auth |-> [a EXCEPT !.VALID_STATES = @ \cup {a.next_uuid}, !.next_uuid = @ + 1],
   state |-> to_state_str(AuthStateToken(a.next_uuid))]

\* the clock of the server process
tick ==
  /\ auth.now < MaxNow
  /\ auth' = [auth EXCEPT !.now = @ + 1]
  /\ UNCHANGED <<dbVars, last_set, resp, w, w_other, feed, pending, session>>

\* GET /login (routers/user.py): the page carries a fresh federated-login url
get_login ==
  /\ auth.next_uuid <= MaxStates
  /\ auth' = generate_google_auth_url(auth).auth
  /\ resp' = [op |-> "get_login", status |-> 200,
              state |-> generate_google_auth_url(auth).state]
  /\ UNCHANGED <<dbVars, last_set, w, w_other, feed, pending, session>>

\* GET /googleauth/authorize: generate_google_auth_url returns one str, which
\* "state, url = ..." cannot unpack: ValueError after the token was registered
google_auth_authorize ==
  /\ auth.next_uuid <= MaxStates
  /\ auth' = generate_google_auth_url(auth).auth
  /\ resp' = [op |-> "google_auth_authorize", status |-> 500]
  /\ UNCHANGED <<dbVars, last_set, w, w_other, feed, pending, session>>

(***************************************************************************)
(* Access tokens (auth/base.py) and the identity dependency                *)
(* (dependencies/user.py).  A token is what jose sees of it: its form, the *)
(* key it was signed with and its claims.                                  *)
(***************************************************************************)
SECRET_KEY == "secret-key"

ACCESS_TOKEN_EXPIRE_MINUTES == 30

create_access_token(sub, expires_delta, now) ==
  [form |-> "jwt", sub |-> <<sub>>, exp |-> now + expires_delta, key |-> SECRET_KEY]

\* jwt.decode(token, SECRET_KEY, algorithms=[ALGORITHM])
jwt_decode(token, now) ==
  IF token.form # "jwt" THEN [error |-> "JWTError", sub |-> <<>>]
  ELSE IF token.key # SECRET_KEY THEN [error |-> "JWTError", sub |-> <<>>]
  ELSE IF token.exp < now THEN [error |-> "ExpiredSignatureError", sub |-> <<>>]
  ELSE [error |-> None, sub |-> token.sub]

get_user_or_none(token, now) ==
  LET payload == jwt_decode(token, now) IN
  IF payload.error # None THEN [error |-> payload.error, user |-> <<>>]
  ELSE IF payload.sub = <<>> THEN [error |-> None, user |-> <<>>]
  ELSE IF \A u \in users : u.email # payload.sub[1] THEN [error |-> None, user |-> <<>>]
  ELSE [error |-> None, user |-> <<get_user_by_email(payload.sub[1])>>]

\* cookie is <<>> (no token cookie) or <<the cookie value>>
get_user_or_redirect(cookie, url) ==
  /\ UNCHANGED <<dbVars, last_set, w, w_other, feed, pending, auth, session>>
  /\ IF cookie = <<>> \/ cookie[1].form = "empty"
     THEN resp' = [op |-> "get_user_or_redirect", status |-> 307, location |-> url,
                   raised |-> None, cookie |-> cookie, url |-> url, user |-> <<>>]
     ELSE LET r == get_user_or_none(cookie[1], auth.now) IN
          IF r.error # None
          THEN \* not an HTTPException: leaves the dependency
               resp' = [op |-> "get_user_or_redirect", status |-> 500, location |-> None,
                        raised |-> r.error, cookie |-> cookie, url |-> url,
                        user |-> <<>>]
          ELSE IF r.user = <<>>
          THEN resp' = [op |-> "get_user_or_redirect", status |-> 307, location |-> url,
                        raised |-> None, cookie |-> cookie, url |-> url,
                        user |-> <<>>]
          ELSE resp' = [op |-> "get_user_or_redirect", status |-> 200, location |-> None,
                        raised |-> None, cookie |-> cookie, url |-> url,
                        user |-> <<r.user[1].id>>]

(***************************************************************************)
(* The federated callback.                                                 *)
(***************************************************************************)
Subs == {"g1"}

\* the token endpoint and the verification of the id token
TokenReplies ==
  {[kind |-> k, email |-> "", sub |-> ""] :
     k \in {"raises", "non200", "no_id_token", "bad_id_token"}}
  \cup {[kind |-> "info", email |-> e, sub |-> g] : e \in Emails, g \in Subs}

get_user_by_google_sub(sub) ==
  CHOOSE u \in users : u.google_sub = sub

\* users.google_sub is unique
GoogleSubTaken(sub) == \E u \in users : u.google_sub = sub

\* lines 132-146: the rows after the lookup, and the user logged in
ResolveUser(email, sub) ==
  IF \E u \in users : u.email = email
  THEN LET user == get_user_by_email(email) IN
       IF user.google_sub = None
       THEN IF GoogleSubTaken(sub)
            THEN [error |-> "IntegrityError", users |-> users, email |-> "", created |-> FALSE]
            ELSE [error |-> None,
                  users |-> (users \ {user}) \cup {[user EXCEPT !.google_sub = sub]},
                  email |-> user.email, created |-> FALSE]
       ELSE [error |-> None, users |-> users, email |-> user.email, created |-> FALSE]
  ELSE IF GoogleSubTaken(sub)
  THEN [error |-> None, users |-> users, email |-> get_user_by_google_sub(sub).email,
        created |-> FALSE]
  ELSE \* crud.create_user stores email and hashed_password only
       [error |-> None,
        users |-> users \cup {[id |-> next_id.users, email |-> email,
                               hashed_password |-> None, google_sub |-> None]},
        email |-> email, created |-> TRUE]

CallbackResp(status, location, state, error, cookie, contacted, set_cookie) ==
  [op |-> "google_auth_callback", status |-> status, location |-> location,
   state |-> state, error |-> error, cookie |-> cookie,
   contacted |-> contacted, set_cookie |-> set_cookie]

\* state, error and cookie are <<>> when absent and <<value>> when present
google_auth_callback(state, error, cookie) ==
  /\ UNCHANGED <<bboxes, data_types, cache, orders, last_set, w, w_other, feed, pending, auth, session>>
  /\ LET parsed == IF state = <<>> THEN <<>> ELSE from_state_str(state[1]).value
         login == CallbackResp(307, "/login", state, error, cookie, FALSE, <<>>)
     IN IF error # <<>>
        THEN resp' = login /\ UNCHANGED <<users, next_id>>
        ELSE IF state = <<>> \/ parsed = <<>>
        THEN resp' = login /\ UNCHANGED <<users, next_id>>
        ELSE IF state # cookie
        THEN resp' = login /\ UNCHANGED <<users, next_id>>
        ELSE IF ~validate_state(parsed, auth)
        THEN resp' = login /\ UNCHANGED <<users, next_id>>
        ELSE \E r \in TokenReplies :
               IF r.kind \in {"raises", "non200", "bad_id_token"}
               THEN /\ resp' = CallbackResp(307, "/login", state, error, cookie, TRUE, <<>>)
                    /\ UNCHANGED <<users, next_id>>
               ELSE IF r.kind = "no_id_token"
               THEN /\ resp' = CallbackResp(500, None, state, error, cookie, TRUE, <<>>)
                    /\ UNCHANGED <<users, next_id>>
               ELSE LET found == ResolveUser(r.email, r.sub) IN
                    IF found.error # None
                    THEN /\ resp' = CallbackResp(500, None, state, error, cookie, TRUE, <<>>)
                         /\ UNCHANGED <<users, next_id>>
                    ELSE /\ users' = found.users
                         /\ next_id' = IF found.created
                                       THEN [next_id EXCEPT !.users = @ + 1]
                                       ELSE next_id
                         /\ resp' = CallbackResp(200, None, state, error, cookie, TRUE,
                                      <<create_access_token(found.email,
                                          ACCESS_TOKEN_EXPIRE_MINUTES, auth.now)>>)

(***************************************************************************)
(* SpecAuth: one registered user; the clock advances, login pages and the  *)
(* authorize route issue state tokens, and callbacks and authenticated     *)
(* requests arrive with every state string, cookie and access token of the *)
(* bounded sets below.                                                     *)
(***************************************************************************)
ExpiresValues == {DefaultExpires, MaxNow + 1}

Serializeds ==
  {[kind |-> "json", token |-> t, expires |-> e, data |-> None] :
     t \in {<<>>} \cup {<<k>> : k \in 1..(MaxStates + 1)},
     e \in {<<>>} \cup {<<x>> : x \in ExpiresValues}}
  \cup {[kind |-> "garbage", token |-> <<>>, expires |-> <<>>, data |-> None]}

\* the hash of the payload itself, a hash under another key, and the hash of
\* the payload of the first state token issued
Hashes(serialized) ==
  {HMAC(GOOGLE_CLIENT_ID, serialized), HMAC("other-key", serialized),
   HMAC(GOOGLE_CLIENT_ID, Serialized(AuthStateToken(1)))}

StateStrs ==
  {[b64 |-> TRUE, parts |-> 2, serialized |-> x, hash |-> h] :
     <<x, h>> \in {y \in Serializeds \X UNION {Hashes(z) : z \in Serializeds} :
                    y[2] \in Hashes(y[1])}}
  \cup {[b64 |-> b, parts |-> n, serialized |-> Serialized(AuthStateToken(1)),
         hash |-> HMAC(GOOGLE_CLIENT_ID, Serialized(AuthStateToken(1)))] :
          <<b, n>> \in {<<FALSE, 2>>, <<TRUE, 1>>, <<TRUE, 3>>}}

\* the state cookie of a request: none, the state parameter, or another string
Cookies(state) ==
  {<<>>, state} \cup {<<to_state_str(AuthStateToken(MaxStates + 1))>>}

AccessTokens ==
  {[form |-> f, sub |-> <<>>, exp |-> 0, key |-> SECRET_KEY] : f \in {"empty", "malformed"}}
  \cup {[form |-> "jwt", sub |-> sb, exp |-> x, key |-> k] :
          sb \in {<<>>} \cup {<<e>> : e \in Emails},
          x \in {1, MaxNow + ACCESS_TOKEN_EXPIRE_MINUTES},
          k \in {SECRET_KEY, "other-key"}}

InitAuth ==
  /\ users = Registered(1)
  /\ bboxes = {}
  /\ data_types = SeededCatalog
  /\ cache = EmptyBag
  /\ orders = {}
  /\ next_id = [users |-> 2, bboxes |-> 1, data_types |-> 4, orders |-> 1]
  /\ last_set = [p \in PairIds |-> NoCall]
  /\ resp = [op |-> "init"]
  /\ w = WorkerIdle
  /\ auth = AuthIdle
  /\ session = NoSession
  /\ w_other = WorkerIdle
  /\ feed = NoFeed
  /\ pending = {}

NextAuth ==
  \/ tick
  \/ get_login
  \/ google_auth_authorize
  \/ \E state \in {<<>>} \cup {<<x>> : x \in StateStrs},
        error \in {<<>>, <<"access_denied">>} :
       \E cookie \in Cookies(state) : google_auth_callback(state, error, cookie)
  \/ \E cookie \in {<<>>} \cup {<<t>> : t \in AccessTokens}, url \in {"/login", "/register"} :
       get_user_or_redirect(cookie, url)

SpecAuth == InitAuth /\ [][NextAuth]_vars

(***************************************************************************)
(* C6. A state string whose hash part or payload part was altered after    *)
(* to_state_str parses to the absent result without raising, and the       *)
(* callback answers it with the redirect to /login; a state token whose    *)
(* expiry is earlier than the validation time fails validate_state even    *)
(* when its string carries the correct hash and its token is registered.   *)
(***************************************************************************)
StateTokens ==
  [token : 1..(MaxStates + 1), expires : ExpiresValues, data : {None}]

\* s is the string of token st with one of its two parts replaced
AlteredFrom(s, st) ==
  /\ s.b64 /\ s.parts = 2
  /\ s # to_state_str(st)
  /\ \/ s.serialized = to_state_str(st).serialized
     \/ s.hash = to_state_str(st).hash

IsAltered(s) == \E st \in StateTokens : AlteredFrom(s, st)

C6_TamperedOrExpiredStateFails ==
  /\ \A s \in StateStrs :
       IsAltered(s) => from_state_str(s) = [raised |-> FALSE, value |-> <<>>]
  /\ \A st \in StateTokens :
       /\ from_state_str(to_state_str(st)) = [raised |-> FALSE, value |-> <<st>>]
       /\ st.expires < auth.now => ~validate_state(<<st>>, auth)
  /\ (resp.op = "google_auth_callback" /\ resp.state # <<>> /\ IsAltered(resp.state[1]))
       => resp.status = 307 /\ resp.location = "/login" /\ ~resp.contacted

\* the callback received, as parameter and as cookie, the string of a
\* registered and unexpired token with the hash of another key, and
\* redirected to /login
C6_Witness ==
  /\ resp.op = "google_auth_callback"
  /\ resp.error = <<>>
  /\ resp.state # <<>>
  /\ resp.cookie = resp.state
  /\ resp.state[1].serialized = Serialized(AuthStateToken(1))
  /\ resp.state[1].hash = HMAC("other-key", resp.state[1].serialized)
  /\ 1 \in auth.VALID_STATES
  /\ auth.now <= DefaultExpires
  /\ resp.status = 307

(***************************************************************************)
(* C9. The federated callback contacts the token endpoint, links or        *)
(* creates a user, or issues the access-token cookie only if there is no   *)
(* provider error, the state parameter is present and parses with a valid  *)
(* signature, it equals the state cookie, and the parsed state is not      *)
(* expired; in every other case it answers 307 to /login and changes no    *)
(* user row.                                                               *)
(***************************************************************************)
SignedState(s) ==
  /\ s.b64 /\ s.parts = 2 /\ s.serialized.kind = "json"
  /\ s.serialized.token # <<>> /\ s.serialized.expires # <<>>
  /\ s.hash = HMAC(GOOGLE_CLIENT_ID, s.serialized)

CallbackOutcome ==
  (resp'.op = "google_auth_callback" /\ auth' = auth) =>
    LET allowed == /\ resp'.error = <<>>
                   /\ resp'.state # <<>>
                   /\ SignedState(resp'.state[1])
                   /\ resp'.cookie = resp'.state
                   /\ resp'.state[1].serialized.expires[1] >= auth.now
        acted == resp'.contacted \/ resp'.set_cookie # <<>> \/ users' # users
    IN /\ acted => allowed
       /\ ~allowed => /\ resp'.status = 307
                      /\ resp'.location = "/login"
                      /\ users' = users

C9_CallbackActsOnlyOnValidState == [][CallbackOutcome]_vars

\* a callback with a signed, matching, unexpired state exchanged the code,
\* linked the registered user and set the access-token cookie
C9_Witness ==
  /\ resp.op = "google_auth_callback"
  /\ resp.contacted
  /\ resp.status = 200
  /\ resp.set_cookie # <<>>
  /\ resp.cookie = resp.state
  /\ \E u \in users : u.google_sub # None

(***************************************************************************)
(* C10. get_user_or_redirect answers every token failure (no token, wrong  *)
(* signature, expired, no subject claim, subject of no user) with the 307  *)
(* redirect to the login url and lets no other error reach the caller.     *)
(***************************************************************************)
TokenFails(cookie, now) ==
  \/ cookie = <<>>
  \/ cookie[1].form # "jwt"
  \/ cookie[1].key # SECRET_KEY
  \/ cookie[1].exp < now
  \/ cookie[1].sub = <<>>
  \/ \A u \in users : u.email # cookie[1].sub[1]

IdentityOutcome ==
  (resp'.op = "get_user_or_redirect" /\ auth' = auth
     /\ TokenFails(resp'.cookie, auth.now)) =>
    /\ resp'.status = 307
    /\ resp'.location = resp'.url
    /\ resp'.raised = None

C10_EveryTokenFailureRedirects == [][IdentityOutcome]_vars

(***************************************************************************)
(* Saving a bounding box (routers/bbox.py).  A float is <<v>> for the      *)
(* number v and <<>> for NaN, which the form parser accepts; every         *)
(* comparison with NaN is false and arithmetic on NaN gives NaN.           *)
(***************************************************************************)
NaN == <<>>

FLess(a, b) == a # NaN /\ b # NaN /\ a[1] < b[1]

FGreater(a, b) == a # NaN /\ b # NaN /\ a[1] > b[1]

FAbsDiff(a, b) ==
  IF a = NaN \/ b = NaN THEN NaN
  ELSE IF a[1] >= b[1] THEN <<a[1] - b[1]>> ELSE <<b[1] - a[1]>>

MAX_BOXES_PER_USER == 5

is_valid_bbox_NoSpan(top_left_lat, top_left_lon, bottom_right_lat, bottom_right_lon) ==
  IF \E x \in {top_left_lat, bottom_right_lat} : FLess(x, <<-90>>) \/ FGreater(x, <<90>>)
  THEN FALSE
  ELSE IF \E x \in {top_left_lon, bottom_right_lon} :
            FLess(x, <<-180>>) \/ FGreater(x, <<180>>)
  THEN FALSE
  ELSE FGreater(top_left_lat, bottom_right_lat) /\ FLess(top_left_lon, bottom_right_lon)

is_valid_bbox(top_left_lat, top_left_lon, bottom_right_lat, bottom_right_lon) ==
  IF \E x \in {top_left_lat, bottom_right_lat} : FLess(x, <<-90>>) \/ FGreater(x, <<90>>)
  THEN FALSE
  ELSE IF \E x \in {top_left_lon, bottom_right_lon} :
            FLess(x, <<-180>>) \/ FGreater(x, <<180>>)
  THEN FALSE
  ELSE IF FGreater(FAbsDiff(top_left_lat, bottom_right_lat), <<10>>) THEN FALSE
  ELSE IF FGreater(FAbsDiff(top_left_lon, bottom_right_lon), <<10>>) THEN FALSE
  ELSE FGreater(top_left_lat, bottom_right_lat) /\ FLess(top_left_lon, bottom_right_lon)

InvalidAlert == "Bounding box is invalid, or too large."

QuotaAlert == "Max 5 boxes/user. Delete one to add more."

CreatedAlert == "Created new bounding box!"

\* POST /bbox_form by the logged-in user
bbox_form(user, top_left_lat, top_left_lon, bottom_right_lat, bottom_right_lon) ==
  LET bbox == <<top_left_lat, top_left_lon, bottom_right_lat, bottom_right_lon>>
      db_user == get_user_by_email(user.email)
  IN /\ UNCHANGED <<users, data_types, cache, orders, last_set>>
     /\ IF ~is_valid_bbox(bbox[1], bbox[2], bbox[3], bbox[4])
        THEN /\ resp' = [op |-> "bbox_form", user_id |-> user.id, box |-> bbox,
                         alert |-> InvalidAlert]
             /\ UNCHANGED <<bboxes, next_id>>
        ELSE IF Cardinality(get_user_bboxes(db_user.id)) > MAX_BOXES_PER_USER
        THEN /\ resp' = [op |-> "bbox_form", user_id |-> user.id, box |-> bbox,
                         alert |-> QuotaAlert]
             /\ UNCHANGED <<bboxes, next_id>>
        ELSE /\ bboxes' = bboxes \cup {NewBBox(bbox, db_user.id)}
             /\ next_id' = [next_id EXCEPT !.bboxes = @ + 1]
             /\ resp' = [op |-> "bbox_form", user_id |-> user.id, box |-> bbox,
                         alert |-> CreatedAlert]

(***************************************************************************)
(* SpecBBox: a registered user who owns OwnedAtStart valid boxes submits   *)
(* the form with every combination of the coordinates below: in and out of *)
(* range, spans of 1, 10 and 11 degrees, equal and reversed corners, NaN.  *)
(***************************************************************************)
Lats == {<<79>>, <<80>>, <<90>>, <<91>>, NaN}

Lons == {<<-181>>, <<-180>>, <<-170>>, <<-169>>, NaN}

InitBBox ==
  /\ users = Registered(1)
  /\ bboxes = {[id |-> i, owner_id |-> 1, box |-> GoodBox] : i \in 1..OwnedAtStart}
  /\ data_types = SeededCatalog
  /\ cache = EmptyBag
  /\ orders = {}
  /\ next_id = [users |-> 2, bboxes |-> OwnedAtStart + 1, data_types |-> 4, orders |-> 1]
  /\ last_set = [p \in PairIds |-> NoCall]
  /\ resp = [op |-> "init"]
  /\ w = WorkerIdle
  /\ auth = AuthIdle
  /\ session = NoSession
  /\ w_other = WorkerIdle
  /\ feed = NoFeed
  /\ pending = {}

NextBBox ==
  \E user \in users, top_left_lat \in Lats, top_left_lon \in Lons,
     bottom_right_lat \in Lats, bottom_right_lon \in Lons :
    /\ bbox_form(user, top_left_lat, top_left_lon, bottom_right_lat, bottom_right_lon)
    /\ UNCHANGED procVars

SpecBBox == InitBBox /\ [][NextBBox]_vars

OwnedBy(rows, user_id) == Cardinality({b \in rows : b.owner_id = user_id})

\* the four numbers of a box are in range, at most 10 degrees apart, and the
\* first corner lies north and west of the second
WithinLimits(box) ==
  /\ \A k \in 1..4 : box[k] # <<>>
  /\ \A k \in {1, 3} : box[k][1] >= -90 /\ box[k][1] <= 90
  /\ \A k \in {2, 4} : box[k][1] >= -180 /\ box[k][1] <= 180
  /\ box[1][1] > box[3][1] /\ box[1][1] - box[3][1] <= 10
  /\ box[2][1] < box[4][1] /\ box[4][1] - box[2][1] <= 10

(***************************************************************************)
(* C7. A user owns at most 5 bounding boxes: a user who owns exactly 5     *)
(* boxes and submits a valid 6th through the form gets the quota alert and *)
(* nothing is persisted.                                                   *)
(***************************************************************************)
QuotaOutcome ==
  resp'.op = "bbox_form" =>
    /\ OwnedBy(bboxes', resp'.user_id) <= 5
    /\ (OwnedBy(bboxes, resp'.user_id) = 5 /\ WithinLimits(resp'.box)) =>
         resp'.alert = QuotaAlert /\ bboxes' = bboxes

C7_SixthBoxRejected == [][QuotaOutcome]_vars

(***************************************************************************)
(* C8. Every box persisted through the form has both latitudes in          *)
(* [-90, 90], both longitudes in [-180, 180], spans of at most 10 degrees, *)
(* top_left_lat > bottom_right_lat and top_left_lon < bottom_right_lon; a  *)
(* submission violating any of these persists nothing.                     *)
(***************************************************************************)
FormOutcome ==
  resp'.op = "bbox_form" =>
    /\ \A b \in bboxes' : WithinLimits(b.box)
    /\ \A b \in bboxes' \ bboxes : b.box = resp'.box /\ b.owner_id = resp'.user_id
    /\ ~WithinLimits(resp'.box) => bboxes' = bboxes /\ resp'.alert = InvalidAlert

C8_PersistedBoxesWithinLimits == [][FormOutcome]_vars

\* a box of exactly 10 by 10 degrees touching latitude 90 and longitude -180
\* was saved
C8_Witness ==
  /\ resp.op = "bbox_form"
  /\ resp.alert = CreatedAlert
  /\ resp.box = <<(<<90>>), (<<-180>>), (<<80>>), (<<-170>>)>>
  /\ \E b \in bboxes : b.box = resp.box /\ b.id = next_id.bboxes - 1

(***************************************************************************)
(* Registration (routers/user.py, auth/base.py, schemas.UserCreate).       *)
(* Passwords are sequences of characters; an email is a text, "" when the  *)
(* field is empty.  bcrypt gives each password of the model its own hash   *)
(* text.                                                                   *)
(***************************************************************************)
Pw7 == <<"s", "e", "c", "r", "e", "t", "7">>

Pw8 == <<"p", "a", "s", "s", "w", "o", "r", "d">>

Other8 == <<"l", "e", "t", "m", "e", "i", "n", "1">>

Passwords == {<<>>, Pw7, Pw8, Other8}

hash_password(password) ==
  IF password = Pw8 THEN "hash"
  ELSE IF password = Other8 THEN "hash-other8"
  ELSE IF password = Pw7 THEN "hash-pw7"
  ELSE "hash-empty"

\* pwd_context.verify: false for a user without hash
verify_password(plain_password, hashed_password) ==
  hashed_password # None /\ hashed_password = hash_password(plain_password)

strong_password(password) == Len(password) >= 8

\* <<>> for the False of the source, <<user>> otherwise
authenticate_user(email, password) ==
  IF \A u \in users : u.email # email THEN <<>>
  ELSE IF ~verify_password(password, get_user_by_email(email).hashed_password) THEN <<>>
  ELSE <<get_user_by_email(email)>>

\* the pydantic model: EmailStr is validated, validate_user is a plain
\* method that nothing calls
UserCreate(email, hashed_password, google_sub) ==
  [error |-> IF email \in Emails THEN None ELSE "ValidationError",
   email |-> email, hashed_password |-> hashed_password, google_sub |-> google_sub]

\* the row crud.create_user adds for a UserCreate
NewUser(user) ==
  [id |-> next_id.users, email |-> user.email,
   hashed_password |-> user.hashed_password, google_sub |-> None]

FieldsRequired == "All fields are required"

AlreadyRegistered == "Email already registered"

NoMatch == "Passwords do not match"

TooShort == "Password must be at least 8 characters long"

RegisterResp(status, error, email, password, password_confirm, set_cookie) ==
  [op |-> "register", status |-> status, error |-> error, email |-> email,
   password |-> password, password_confirm |-> password_confirm,
   set_cookie |-> set_cookie]

register_MatchFirst(email, password, password_confirm) ==
  /\ auth' = generate_google_auth_url(auth).auth
  /\ UNCHANGED <<bboxes, data_types, cache, orders, last_set, w, w_other, feed, pending, users, next_id, session>>
  /\ resp' = RegisterResp(200,
       IF email = "" \/ password = <<>> \/ password_confirm = <<>> THEN FieldsRequired
       ELSE IF password # password_confirm THEN NoMatch
       ELSE IF \E u \in users : u.email = email THEN AlreadyRegistered
       ELSE TooShort, email, password, password_confirm, <<>>)

\* POST /register
register(email, password, password_confirm) ==
  /\ auth' = generate_google_auth_url(auth).auth
  /\ UNCHANGED <<bboxes, data_types, cache, orders, last_set, w, w_other, feed, pending, session>>
  /\ IF email = "" \/ password = <<>> \/ password_confirm = <<>>
     THEN /\ resp' = RegisterResp(200, FieldsRequired, email, password,
                                  password_confirm, <<>>)
          /\ UNCHANGED <<users, next_id>>
     ELSE IF \E u \in users : u.email = email
     THEN /\ resp' = RegisterResp(200, AlreadyRegistered, email, password,
                                  password_confirm, <<>>)
          /\ UNCHANGED <<users, next_id>>
     ELSE IF password # password_confirm
     THEN /\ resp' = RegisterResp(200, NoMatch, email, password, password_confirm, <<>>)
          /\ UNCHANGED <<users, next_id>>
     ELSE IF ~strong_password(password)
     THEN /\ resp' = RegisterResp(200, TooShort, email, password, password_confirm, <<>>)
          /\ UNCHANGED <<users, next_id>>
     ELSE LET user_create == UserCreate(email, hash_password(password), None) IN
          IF user_create.error # None
          THEN /\ resp' = RegisterResp(500, user_create.error, email, password,
                                       password_confirm, <<>>)
               /\ UNCHANGED <<users, next_id>>
          ELSE /\ users' = users \cup {NewUser(user_create)}
               /\ next_id' = [next_id EXCEPT !.users = @ + 1]
               /\ resp' = RegisterResp(200, None, email, password, password_confirm,
                            <<create_access_token(email, ACCESS_TOKEN_EXPIRE_MINUTES,
                                                  auth.now)>>)

(***************************************************************************)
(* SpecAccount: accounts are created by registrations with every           *)
(* combination of empty, unknown, known and malformed emails and empty,    *)
(* short, equal and different passwords, and by federated callbacks that   *)
(* carry the state string of an issued token as parameter and as cookie.   *)
(***************************************************************************)
FormEmails == {""} \cup Emails \cup {"nomail"}

InitAccount ==
  /\ EmptyDB
  /\ last_set = [p \in PairIds |-> NoCall]
  /\ resp = [op |-> "init"]
  /\ w = WorkerIdle
  /\ auth = AuthIdle
  /\ session = NoSession
  /\ w_other = WorkerIdle
  /\ feed = NoFeed
  /\ pending = {}

NextAccount ==
  \/ \E email \in FormEmails, password \in Passwords, password_confirm \in Passwords :
       /\ auth.next_uuid <= MaxUrls
       /\ register(email, password, password_confirm)
  \/ \E k \in auth.VALID_STATES :
       google_auth_callback(<<to_state_str(AuthStateToken(k))>>, <<>>,
                            <<to_state_str(AuthStateToken(k))>>)

SpecAccount == InitAccount /\ [][NextAccount]_vars

(***************************************************************************)
(* C11. After any sequence of registrations and federated logins every     *)
(* persisted user has a hashed_password or a google_sub; a user with       *)
(* neither is not created.                                                 *)
(***************************************************************************)
C11_PasswordOrGoogleSub ==
  \A u \in users : u.hashed_password # None \/ u.google_sub # None

(***************************************************************************)
(* C14. POST /register checks, in this order, that no field is empty, that *)
(* the email is not registered, that password and confirmation are equal   *)
(* and that the password has at least 8 characters; the first failing      *)
(* check decides the message, and on a failure no user is created and no   *)
(* token cookie is set.                                                    *)
(***************************************************************************)
\* the first failing check of a submission, 0 when none fails
FirstFailing(rows, email, password, password_confirm) ==
  IF email = "" \/ Len(password) = 0 \/ Len(password_confirm) = 0 THEN 1
  ELSE IF email \in {u.email : u \in rows} THEN 2
  ELSE IF password # password_confirm THEN 3
  ELSE IF Len(password) < 8 THEN 4
  ELSE 0

CheckMessages == <<FieldsRequired, AlreadyRegistered, NoMatch, TooShort>>

RegisterOutcome ==
  (resp'.op = "register" /\ auth'.next_uuid = auth.next_uuid + 1) =>
    LET failing == FirstFailing(users, resp'.email, resp'.password,
                                resp'.password_confirm)
    IN /\ failing # 0 => /\ resp'.error = CheckMessages[failing]
                         /\ users' = users
                         /\ resp'.set_cookie = <<>>
       /\ failing = 0 => resp'.error \notin {CheckMessages[k] : k \in 1..4}

C14_RegisterChecksInOrder == [][RegisterOutcome]_vars

\* a registered email was submitted with two different short passwords: the
\* message is the one of the email check
C14_Witness ==
  /\ resp.op = "register"
  /\ resp.email \in {u.email : u \in users}
  /\ resp.password = Pw7
  /\ resp.password_confirm = Pw8
  /\ resp.error = AlreadyRegistered
  /\ resp.set_cookie = <<>>

(***************************************************************************)
(* SpecSend: the send loop of worker.main as a function of the buckets it  *)
(* is handed: two registered users with one box each, and every            *)
(* notifications_by_user of one or two buckets, in both key orders, with   *)
(* one notification per bucket of a source make_email_body knows.  The     *)
(* send of any one bucket, or of none, raises.                             *)
(***************************************************************************)
SendNotifications(bbox_id) ==
  {[bbox_id |-> bbox_id, data_type |-> d, new_surveys |-> Descending(S)] :
     d \in {"multibeam", "csb0"}, S \in (SUBSET SurveyTimes) \ {{}}}

SendBuckets ==
  LET One(u) == {[user_id |-> u, notifications |-> <<n>>] : n \in SendNotifications(u)}
  IN {<<b>> : b \in One(1) \cup One(2)}
       \cup {<<a, b>> : a \in One(1), b \in One(2)}
       \cup {<<b, a>> : a \in One(1), b \in One(2)}

InitSend ==
  /\ users = Registered(2)
  /\ bboxes = {[id |-> u, owner_id |-> u, box |-> GoodBox] : u \in 1..2}
  /\ data_types = SeededCatalog
  /\ cache = EmptyBag
  /\ orders = {}
  /\ next_id = [users |-> 3, bboxes |-> 3, data_types |-> 4, orders |-> 1]
  /\ last_set = [p \in PairIds |-> NoCall]
  /\ resp = [op |-> "init"]
  /\ \E buckets \in SendBuckets :
       w = [WorkerIdle EXCEPT !.pc = "send", !.notifications_by_user = buckets]
  /\ auth = AuthIdle
  /\ session = NoSession
  /\ w_other = WorkerIdle
  /\ feed = NoFeed
  /\ pending = {}

NextSend == send_notifications /\ UNCHANGED <<auth, session, w_other, feed, pending>>

SpecSend == InitSend /\ [][NextSend]_vars

(***************************************************************************)
(* C12. In the send loop of the worker a send that fails for one user does *)
(* not keep the other users from their email: when one send of a run       *)
(* fails, every other user with a bucket (and an account) is still sent    *)
(* an email.                                                               *)
(***************************************************************************)
SendOutcome ==
  (w.pc = "send" /\ Ended(w'.pc)) =>
    Len(w'.emails) >= Len(w.notifications_by_user) - 1

StartupOutcome ==
  (Ended(w.pc) /\ w'.pc \in {"exit1", "lookup", "send", "done", "crashed"}) =>
    ((users = {} \/ data_types = {} \/ bboxes = {}) =>
       /\ w'.pc = "exit1"
       /\ cache' = cache
       /\ w'.emails = <<>>)

C17_StartupGuard == [][StartupOutcome]_vars

(***************************************************************************)
(* SpecSeed: the seed script is run any number of times, one run at a      *)
(* time, before and after users register and boxes are saved and deleted.  *)
(***************************************************************************)
InitSeed ==
  /\ EmptyDB
  /\ last_set = [p \in PairIds |-> NoCall]
  /\ resp = [op |-> "init"]
  /\ w = WorkerIdle
  /\ auth = AuthIdle
  /\ session = NoSession
  /\ w_other = WorkerIdle
  /\ feed = NoFeed
  /\ pending = {}

NextSeed ==
  \/ seed /\ UNCHANGED procVars
  \/ \E e \in Emails : create_user(e, "hash") /\ UNCHANGED procVars
  \/ \E u \in users : create_user_bbox(GoodBox, u.id) /\ UNCHANGED procVars
  \/ \E b \in bboxes : delete_user_bbox(b.id, b.owner_id) /\ UNCHANGED procVars

SpecSeed == InitSeed /\ [][NextSeed]_vars

(***************************************************************************)
(* C13. The seed script is idempotent: after every run, the first or a     *)
(* later one, the catalog holds exactly one row for each seeded name, the  *)
(* rows that were there before the run are unchanged, and the run does not *)
(* fail.                                                                   *)
(***************************************************************************)
SeedOutcome ==
  resp'.op = "seed" =>
    /\ resp'.error = None
    /\ \A i \in 1..Len(data_sources) :
         Cardinality({d \in data_types' : d.name = data_sources[i]}) = 1
    /\ data_types \subseteq data_types'
    /\ data_types # {} => data_types' = data_types

C13_SeedIdempotent == [][SeedOutcome]_vars

\* a run of the script over a seeded catalog, with users and a box in the
\* database, added nothing
C13_Witness ==
  /\ resp.op = "seed"
  /\ resp.added = 0
  /\ Cardinality(data_types) = Len(data_sources)
  /\ bboxes # {}

(***************************************************************************)
(* Login and logout (routers/user.py).  The server keeps nothing about a   *)
(* token it issued: logout only asks the browser to delete the cookie.     *)
(***************************************************************************)
\* POST /login
login(email, password) ==
  /\ auth' = generate_google_auth_url(auth).auth
  /\ UNCHANGED <<dbVars, last_set, w, w_other, feed, pending>>
  /\ IF authenticate_user(email, password) = <<>>
     THEN /\ resp' = [op |-> "login", status |-> 200, error |-> "Invalid credentials",
                      set_cookie |-> <<>>]
          /\ UNCHANGED session
     ELSE LET user == authenticate_user(email, password)[1]
              access_token == create_access_token(user.email, ACCESS_TOKEN_EXPIRE_MINUTES,
                                                  auth.now)
          IN /\ resp' = [op |-> "login", status |-> 200, error |-> None,
                         set_cookie |-> <<access_token>>]
             /\ session' = [token |-> <<access_token>>, logged_out |-> FALSE]

\* GET /logout with a stored list of revoked tokens that the identity
\* dependency would consult: the token of the session is void from then on
logout_Revoke ==
  /\ resp' = [op |-> "logout", status |-> 200, delete_cookie |-> "token"]
  /\ session' = [token |-> IF session.token = <<>> THEN <<>>
                           ELSE <<[session.token[1] EXCEPT !.key = "revoked"]>>,
                 logged_out |-> TRUE]
  /\ UNCHANGED <<dbVars, last_set, w, w_other, feed, pending, auth>>

\* GET /logout: the page, with delete_cookie("token")
logout ==
  /\ resp' = [op |-> "logout", status |-> 200, delete_cookie |-> "token"]
  /\ session' = [session EXCEPT !.logged_out = TRUE]
  /\ UNCHANGED <<dbVars, last_set, w, w_other, feed, pending, auth>>

\* the lifetime of an access token passes
wait_expiry ==
  /\ auth.now <= MaxNow
  /\ auth' = [auth EXCEPT !.now = @ + ACCESS_TOKEN_EXPIRE_MINUTES]
  /\ UNCHANGED <<dbVars, last_set, resp, w, w_other, feed, pending, session>>

(***************************************************************************)
(* SpecSession: one registered user and a second visitor log in with right *)
(* and wrong passwords, log out, and the token of the session is presented *)
(* again to a route behind get_user_or_redirect, while minutes pass and    *)
(* the lifetime of a token passes.                                         *)
(***************************************************************************)
InitSession ==
  /\ users = Registered(2)
  /\ bboxes = {}
  /\ data_types = SeededCatalog
  /\ cache = EmptyBag
  /\ orders = {}
  /\ next_id = [users |-> 3, bboxes |-> 1, data_types |-> 4, orders |-> 1]
  /\ last_set = [p \in PairIds |-> NoCall]
  /\ resp = [op |-> "init"]
  /\ w = WorkerIdle
  /\ auth = AuthIdle
  /\ session = NoSession
  /\ w_other = WorkerIdle
  /\ feed = NoFeed
  /\ pending = {}

NextSession ==
  \/ tick
  \/ wait_expiry
  \/ \E email \in Emails, password \in {Pw8, Other8} :
       /\ auth.next_uuid <= MaxUrls
       /\ login(email, password)
  \/ logout
  \/ get_user_or_redirect(session.token, "/login")

SpecSession == InitSession /\ [][NextSession]_vars

(***************************************************************************)
(* C15. Logout does not revoke the token: when the token a login issued is *)
(* presented after GET /logout, the request resolves to the user of the    *)
(* login as long as the token has not expired, and no longer once it has.  *)
(***************************************************************************)
AfterLogoutOutcome ==
  (resp'.op = "get_user_or_redirect" /\ session.logged_out /\ session.token # <<>>
     /\ resp'.cookie = session.token /\ session' = session) =>
    LET token == session.token[1] IN
    IF auth.now <= token.exp
      THEN /\ resp'.status = 200
           /\ resp'.user = <<get_user_by_email(token.sub[1]).id>>
      ELSE resp'.user = <<>>

C15_LogoutDoesNotRevoke == [][AfterLogoutOutcome]_vars

\* after a logout, and before the expiry of the token, the token resolved to
\* its user
C15_Witness ==
  /\ session.logged_out
  /\ session.token # <<>>
  /\ resp.op = "get_user_or_redirect"
  /\ resp.user # <<>>
  /\ get_user_by_id(resp.user[1]).email = session.token[1].sub[1]
  /\ auth.now > 0
  /\ auth.now <= session.token[1].exp

\* after a logout and the expiry of the token, the token no longer resolved
C15_WitnessExpired ==
  /\ session.logged_out
  /\ session.token # <<>>
  /\ resp.op = "get_user_or_redirect"
  /\ resp.user = <<>>
  /\ auth.now > session.token[1].exp

(***************************************************************************)
(* Order submission (routers/noaa.py, POST /order/{bbox_id}/{data_type}).  *)
(***************************************************************************)
\* what requests.post + resp.ok + resp.json() give send_order_to_noaa and the
\* handler: a transport failure (raises), a status that is not ok (raises), a
\* body that is not JSON (raises), and JSON with or without the keys "url"
\* and "message" the handler reads
OrderReplies ==
  {[kind |-> k, url |-> FALSE, message |-> FALSE] : k \in {"transport", "not-ok", "not-json"}}
    \cup {[kind |-> "ok", url |-> u, message |-> m] : u \in BOOLEAN, m \in BOOLEAN}

\* the row crud.create_data_order adds
NewDataOrder(user_id, bbox_id, data_type) ==
  [id |-> next_id.orders, bbox_id |-> bbox_id, user_id |-> user_id,
   data_type |-> data_type, last_status |-> Created]

OrderResp(status, detail, bbox_id, data_type, user, hx_request, sent) ==
  [op |-> "order", status |-> status, detail |-> detail, bbox_id |-> bbox_id,
   data_type |-> data_type, user_id |-> user.id, hx_request |-> hx_request,
   sent |-> sent]

\* the handler with the call to NOAA after the row is written
order_PersistFirst(bbox_id, data_type, user, hx_request) ==
  /\ UNCHANGED <<users, bboxes, data_types, cache, last_set>>
  /\ IF ~hx_request
     THEN /\ resp' = OrderResp(307, "/account", bbox_id, data_type, user, hx_request, <<>>)
          /\ UNCHANGED <<orders, next_id>>
     ELSE IF data_type \notin {"csb", "multibeam"}
     THEN /\ resp' = OrderResp(404, "Data type not found", bbox_id, data_type, user,
                               hx_request, <<>>)
          /\ UNCHANGED <<orders, next_id>>
     ELSE IF \A b \in bboxes : b.id # bbox_id
     THEN /\ resp' = OrderResp(404, "Bounding box not found", bbox_id, data_type, user,
                               hx_request, <<>>)
          /\ UNCHANGED <<orders, next_id>>
     ELSE IF get_bbox_by_id(bbox_id).owner_id # user.id
     THEN /\ resp' = OrderResp(403, "no permission", bbox_id, data_type, user,
                               hx_request, <<>>)
          /\ UNCHANGED <<orders, next_id>>
     ELSE \E r \in OrderReplies :
          /\ orders' = orders \cup {NewDataOrder(user.id, bbox_id, data_type)}
          /\ next_id' = [next_id EXCEPT !.orders = @ + 1]
          /\ resp' = OrderResp(IF r.kind = "ok" /\ r.url /\ r.message THEN 200 ELSE 500,
                               "Error sending order to NOAA", bbox_id, data_type, user,
                               hx_request, <<r>>)

\* user is what get_user_or_redirect resolved; sent is <<>> when no request
\* went to NOAA and <<reply>> otherwise
order(bbox_id, data_type, user, hx_request) ==
  /\ UNCHANGED <<users, bboxes, data_types, cache, last_set>>
  /\ IF ~hx_request
     THEN /\ resp' = OrderResp(307, "/account", bbox_id, data_type, user, hx_request, <<>>)
          /\ UNCHANGED <<orders, next_id>>
     ELSE IF data_type \notin {"csb", "multibeam"}
     THEN /\ resp' = OrderResp(404, "Data type not found", bbox_id, data_type, user,
                               hx_request, <<>>)
          /\ UNCHANGED <<orders, next_id>>
     ELSE IF \A b \in bboxes : b.id # bbox_id
     THEN /\ resp' = OrderResp(404, "Bounding box not found", bbox_id, data_type, user,
                               hx_request, <<>>)
          /\ UNCHANGED <<orders, next_id>>
     ELSE IF get_bbox_by_id(bbox_id).owner_id # user.id
     THEN /\ resp' = OrderResp(403, "no permission", bbox_id, data_type, user,
                               hx_request, <<>>)
          /\ UNCHANGED <<orders, next_id>>
     ELSE \E r \in OrderReplies :
          IF r.kind # "ok"
          THEN \* raised inside the try: the generic 500
               /\ resp' = OrderResp(500, "Error sending order to NOAA", bbox_id,
                                    data_type, user, hx_request, <<r>>)
               /\ UNCHANGED <<orders, next_id>>
          ELSE IF ~r.url
          THEN \* resp["url"]: KeyError before the row is written
               /\ resp' = OrderResp(500, "KeyError", bbox_id, data_type, user,
                                    hx_request, <<r>>)
               /\ UNCHANGED <<orders, next_id>>
          ELSE /\ orders' = orders \cup {NewDataOrder(user.id, bbox_id, data_type)}
               /\ next_id' = [next_id EXCEPT !.orders = @ + 1]
               /\ resp' = IF r.message
                            THEN OrderResp(200, None, bbox_id, data_type, user,
                                           hx_request, <<r>>)
                            \* resp["message"]: KeyError after the commit
                            ELSE OrderResp(500, "KeyError", bbox_id, data_type, user,
                                           hx_request, <<r>>)

(***************************************************************************)
(* SpecSubmit: two users with one box each submit orders for every box id  *)
(* (their own, the other's, none) and data type, as partial-page and as    *)
(* full-page requests, with every answer of NOAA.                          *)
(***************************************************************************)
OrderDataTypes == {"csb", "multibeam", "nos_survey"}

NextSubmit ==
  \E bbox_id \in 1..(MaxBBoxId + 1), data_type \in OrderDataTypes, user \in users,
     hx_request \in BOOLEAN :
    /\ next_id.orders <= MaxOrderId
    /\ order(bbox_id, data_type, user, hx_request)
    /\ UNCHANGED procVars

SpecSubmit == InitOrder /\ [][NextSubmit]_vars

(***************************************************************************)
(* C16. POST /order persists a data order only when the request is a       *)
(* partial-page request, the data type is csb or multibeam, the box        *)
(* exists, the caller owns it and the POST to NOAA succeeded; when one of  *)
(* these fails the answer is, by the first that fails, a redirect, 404,    *)
(* 404, 403 or 500 and the data-order table is unchanged.  Every persisted *)
(* order has last_status "Created".                                        *)
(***************************************************************************)
\* the first failing condition of the submission recorded in r, 0 when none
FirstFailingOrder(r) ==
  IF ~r.hx_request THEN 1
  ELSE IF r.data_type \notin {"csb", "multibeam"} THEN 2
  ELSE IF r.bbox_id \notin {b.id : b \in bboxes} THEN 3
  ELSE IF \E b \in bboxes : b.id = r.bbox_id /\ b.owner_id # r.user_id THEN 4
  ELSE IF r.sent = <<>> \/ r.sent[1].kind \in {"transport", "not-ok"} THEN 5
  ELSE 0

OrderAnswers == <<307, 404, 404, 403, 500>>

OrderOutcome ==
  resp'.op = "order" =>
    LET failing == FirstFailingOrder(resp') IN
    /\ failing # 0 => resp'.status = OrderAnswers[failing] /\ orders' = orders
    /\ failing \in 1..4 => resp'.sent = <<>>
    /\ orders' # orders =>
         /\ failing = 0
         /\ orders' = orders \cup {NewDataOrder(resp'.user_id, resp'.bbox_id,
                                                resp'.data_type)}
    /\ \A o \in orders' : o.last_status = Created

C16_OrderPersistedOnlyWhenAllPass == [][OrderOutcome]_vars

\* an owner's partial-page submission fell on a failing POST: 500 and no
\* order, after an earlier submission was persisted
C16_Witness ==
  /\ resp.op = "order"
  /\ resp.status = 500
  /\ resp.sent # <<>>
  /\ resp.sent[1].kind = "not-ok"
  /\ Cardinality(orders) = 1
  /\ \A o \in orders : o.last_status = Created

(***************************************************************************)
(* SpecRace: two worker processes over the same database (one user with    *)
(* one box, the catalog as seed.py writes it, once it has run).  Each step *)
(* of worker.main is a step of the scheduled process; switch hands the     *)
(* processor to the other one, at any point, so that both can read the     *)
(* cached time of a pair before either writes it.                          *)
(***************************************************************************)
switch ==
  /\ w' = w_other
  /\ w_other' = w
  /\ UNCHANGED <<dbVars, last_set, resp, auth, session, feed, pending>>

InitRace ==
  /\ users = Registered(1)
  /\ bboxes = {[id |-> 1, owner_id |-> 1, box |-> GoodBox]}
  /\ data_types = {}
  /\ cache = EmptyBag
  /\ orders = {}
  /\ next_id = [users |-> 2, bboxes |-> 2, data_types |-> 1, orders |-> 1]
  /\ last_set = [p \in PairIds |-> NoCall]
  /\ resp = [op |-> "init"]
  /\ w = WorkerIdle
  /\ w_other = WorkerIdle
  /\ feed = NoFeed
  /\ pending = {}
  /\ auth = AuthIdle
  /\ session = NoSession

NextRace ==
  \/ switch
  \/ data_types = {} /\ seed /\ UNCHANGED procVars
  \/ main_start /\ UNCHANGED <<auth, session, w_other, feed, pending>>
  \/ check_lookup /\ UNCHANGED <<auth, session, w_other, feed, pending>>
  \/ check_fetch /\ UNCHANGED <<auth, session, w_other, feed, pending>>
  \/ send_notifications /\ UNCHANGED <<auth, session, w_other, feed, pending>>

SpecRace == InitRace /\ [][NextRace]_vars

(***************************************************************************)
(* C18. When two worker runs interleave on the same (box, source) pair so  *)
(* that both read the cached time before either writes it, the same survey *)
(* is emailed to the owner by both runs: once both runs have ended with    *)
(* the survey of the pair in the bucket of each, each has sent an email    *)
(* that lists it.                                                          *)
(***************************************************************************)
\* the (box, source, survey) triples in the buckets of a run
Triples(notifications) ==
  UNION {{<<n.bbox_id, n.data_type, t>> : t \in SeqSet(n.new_surveys)} :
           n \in SeqSet(notifications)}

Found(ww) ==
  UNION {Triples(b.notifications) : b \in SeqSet(ww.notifications_by_user)}

\* the triples in the emails a run has sent
Emailed(ww) == UNION {Triples(e.notifications) : e \in SeqSet(ww.emails)}

C18_RaceDoubleNotifies ==
  (Ended(w.pc) /\ Ended(w_other.pc)) =>
    \A t \in Found(w) \cap Found(w_other) : t \in Emailed(w) \cap Emailed(w_other)

\* no run of SpecRace sends an email
NoEmailInRace == w.emails = <<>> /\ w_other.emails = <<>>

(***************************************************************************)
(* C19. Every state token that generate_google_auth_url produces at time t *)
(* carries the expiry t + 5 minutes, however long the process has been     *)
(* running.                                                                *)
(***************************************************************************)
IssueOutcome ==
  (resp'.op = "get_login" /\ auth'.next_uuid = auth.next_uuid + 1) =>
    resp'.state.serialized.expires = <<auth.now + StateMinutes>>

C19_ExpiryFiveMinutesAfterIssue == [][IssueOutcome]_vars

(***************************************************************************)
(* C20. For each (box, source) pair of a sweep: when the fetch yields      *)
(* nothing (transport failure or a status other than 200, a body with an   *)
(* error, an empty feature list) the cache and the notification buckets    *)
(* are unchanged; when it yields records the cache row of the pair is      *)
(* upserted to the time of the first (newest) record, the rows of other    *)
(* pairs are unchanged, and this also when the filter leaves no new        *)
(* survey.                                                                 *)
(***************************************************************************)
FetchOutcome ==
  (w.pc = "fetch" /\ w'.pc # "crashed") =>
    LET bbox == w.bboxes[w.i]
        data_type == w.data_types[w.j]
        new_data == w'.new_data
    IN IF new_data.kind \in {"none", "error"} \/ new_data.features = <<>>
         THEN /\ cache' = cache
              /\ w'.notifications_by_user = w.notifications_by_user
         ELSE /\ CacheRows(cache', bbox.id, data_type.id) =
                   {[bbox_id |-> bbox.id, data_type_id |-> data_type.id,
                     most_recent_data |-> FromTimestamp(new_data.features[1])]}
              /\ CountRows(cache', bbox.id, data_type.id) = 1
              /\ \A b \in bboxes, d \in data_types :
                   <<b.id, d.id>> # <<bbox.id, data_type.id>> =>
                     /\ CacheRows(cache', b.id, d.id) = CacheRows(cache, b.id, d.id)
                     /\ CountRows(cache', b.id, d.id) = CountRows(cache, b.id, d.id)

C20_CacheUpsertedIffRecords == [][FetchOutcome]_vars

\* the pair had the cached time of survey 2; survey 1 alone was fetched; no
\* survey was new and the cache row now holds the time of survey 1
C20_Witness ==
  /\ w.pc \in {"lookup", "send"}
  /\ w.date = <<FromTimestamp(2)>>
  /\ w.new_data.features = <<1>>
  /\ w.surveys = <<>>
  /\ \E b \in bboxes, d \in data_types :
       CacheRows(cache, b.id, d.id) =
         {[bbox_id |-> b.id, data_type_id |-> d.id, most_recent_data |-> FromTimestamp(1)]}

(***************************************************************************)
(* C21. Complete is absorbing for an order: once last_status contains      *)
(* "complete", every later poll of the order by its owner issues no        *)
(* request to the tracking URL, leaves the stored order unchanged and      *)
(* answers 286, and the order stays complete.                              *)
(***************************************************************************)
CompleteOutcome ==
  /\ \A o \in orders : SaysComplete(o.last_status) => o \in orders'
  /\ (resp'.op = "order_status" /\ resp'.status \notin {307, 404, 403}
        /\ \E o \in orders : o.id = resp'.order_id /\ SaysComplete(o.last_status)) =>
       /\ ~resp'.polled
       /\ orders' = orders
       /\ resp'.status = 286
       /\ resp'.body = get_data_order_by_id(resp'.order_id).last_status

C21_CompleteIsAbsorbing == [][CompleteOutcome]_vars

\* a complete order was polled again: no request went out and the answer
\* was 286
C21_Witness ==
  /\ OwnerPolled
  /\ ~resp.polled
  /\ resp.status = 286
  /\ SaysComplete(get_data_order_by_id(resp.order_id).last_status)

(***************************************************************************)
(* C22. When the owner polls an order that is not complete and the request *)
(* to the tracking URL fails or its answer has no status, last_status      *)
(* becomes "Order status unknown", is stored, and the request is answered  *)
(* with 200 (keep polling), not with an error.                             *)
(***************************************************************************)
FailedPollOutcome ==
  (resp'.op = "order_status" /\ resp'.status \notin {307, 404, 403} /\ resp'.polled
     /\ resp'.failed) =>
    /\ \E o \in orders' : o.id = resp'.order_id /\ o.last_status = OrderStatusUnknown
    /\ resp'.body = OrderStatusUnknown
    /\ resp'.status = 200

SweepOutcome ==
  /\ (w.pc = "fetch" /\ cache' = cache) => w'.pc \in {"lookup", "send"}
  /\ (w.pc = "lookup" /\ (w.i > 1 \/ w.j > 1)) => w'.pc = "fetch"

C23_FetchFailureDoesNotAbort == [][SweepOutcome]_vars

(***************************************************************************)
(* C24. For a catalog written by the seed script alone the dispatch on the *)
(* source name never fails: for every name in the catalog the worker's     *)
(* get_query_params and the fetcher factory return instead of raising.     *)
(***************************************************************************)
\* fetchers.data_fetcher_factory: map_to_fetcher[data_type.name], the keys
map_to_fetcher == {"multibeam", "csb0", "csb1"}

C24_SeededDispatchNeverFails ==
  \A d \in data_types : QueryParamsKnown(d.name) /\ d.name \in map_to_fetcher

(***************************************************************************)
(* C25. After a successful federated callback carrying (email, sub) the    *)
(* logged-in user is the user with that email, whose google_sub is set     *)
(* only when it was unset and is never overwritten; else the user with     *)
(* that google_sub; else a newly created user with that email, that sub    *)
(* and no password.  At most one user is created per callback.             *)
(***************************************************************************)
CallbackUserOutcome ==
  (resp'.op = "google_auth_callback" /\ resp'.status = 200) =>
    LET logged_in == resp'.set_cookie[1].sub[1]
        created == {u \in users' : \A v \in users : v.id # u.id}
    IN /\ \E u \in users' : u.email = logged_in
       /\ Cardinality(created) <= 1
       /\ \A v \in users : \E u \in users' :
            /\ u.id = v.id /\ u.email = v.email
            /\ u.hashed_password = v.hashed_password
            /\ v.google_sub # None => u.google_sub = v.google_sub
       /\ \A u \in created :
            /\ u.email = logged_in
            /\ u.hashed_password = None
            /\ u.google_sub \in Subs

C25_CallbackResolvesUser == [][CallbackUserOutcome]_vars

(***************************************************************************)
(* SpecRuns: successive runs of one worker process over one user with one  *)
(* box.  The upstream service of a pair holds a set of surveys that only   *)
(* grows; a fetch fails, or returns all of them, newest first.             *)
(***************************************************************************)
InitRuns ==
  /\ users = Registered(1)
  /\ bboxes = {[id |-> 1, owner_id |-> 1, box |-> GoodBox]}
  /\ data_types = {}
  /\ cache = EmptyBag
  /\ orders = {}
  /\ next_id = [users |-> 2, bboxes |-> 2, data_types |-> 1, orders |-> 1]
  /\ last_set = [p \in PairIds |-> NoCall]
  /\ resp = [op |-> "init"]
  /\ w = WorkerIdle
  /\ auth = AuthIdle
  /\ session = NoSession
  /\ w_other = WorkerIdle
  /\ feed = NoFeed
  /\ pending = {}

\* a survey is added to the upstream service of a pair
publish(p, t) ==
  /\ t \notin feed.upstream[p]
  /\ feed' = [feed EXCEPT !.upstream[p] = @ \cup {t}]
  /\ UNCHANGED <<dbVars, last_set, resp, w, w_other, auth, session, pending>>

\* check_fetch against the service: the features are what the service holds,
\* and what the step adds to the buckets is remembered
fetch_from_feed ==
  /\ w.pc = "fetch"
  /\ check_fetch
  /\ LET p == <<w.bboxes[w.i].id, w.data_types[w.j].id>>
         name == w.data_types[w.j].name
     IN /\ w'.pc # "crashed" =>
             (w'.new_data.kind = "features" =>
                w'.new_data.features = Descending(feed.upstream[p]))
        /\ feed' = [feed EXCEPT !.reported[p] =
                      @ \cup (ReportedNew(w', p[1], name) \ ReportedNew(w, p[1], name))]
  /\ UNCHANGED <<auth, session, w_other, pending>>

NextRuns ==
  \/ data_types = {} /\ seed /\ UNCHANGED procVars
  \/ \E b \in bboxes, d \in data_types, t \in SurveyTimes : publish(<<b.id, d.id>>, t)
  \/ main_start /\ UNCHANGED <<auth, session, w_other, feed, pending>>
  \/ check_lookup /\ UNCHANGED <<auth, session, w_other, feed, pending>>
  \/ fetch_from_feed
  \/ send_notifications /\ UNCHANGED <<auth, session, w_other, feed, pending>>

SpecRuns == InitRuns /\ [][NextRuns]_vars

(***************************************************************************)
(* C26. Across successive runs of one worker process, with upstream        *)
(* results sorted newest first and upstream records only ever added, no    *)
(* survey is counted as new for the same (box, source) pair in two runs,   *)
(* and the cached time of a pair never decreases.                          *)
(***************************************************************************)
RunsOutcome ==
  /\ w.pc = "fetch" =>
       LET p == <<w.bboxes[w.i].id, w.data_types[w.j].id>>
           name == w.data_types[w.j].name
       IN (ReportedNew(w', p[1], name) \ ReportedNew(w, p[1], name))
            \cap feed.reported[p] = {}
  /\ \A b \in bboxes, d \in data_types :
       \A old \in CacheRows(cache, b.id, d.id) :
         \A new \in CacheRows(cache', b.id, d.id) :
           new.most_recent_data >= old.most_recent_data

C26_NoSurveyNewTwice == [][RunsOutcome]_vars

\* a second run found a survey added since the first: survey 1 was counted
\* in an earlier run, survey 2 alone in this one
C26_Witness ==
  /\ \E p \in PairIds : feed.reported[p] = {1, 2} /\ feed.upstream[p] = {1, 2}
  /\ w.date = <<FromTimestamp(1)>>
  /\ w.new_data.features = <<2, 1>>
  /\ w.surveys = <<2>>

(***************************************************************************)
(* Requests in flight.  The route handlers are plain functions, which the  *)
(* server runs in a thread pool, each with its own database session: a     *)
(* handler is a sequence of steps, and the steps of two requests           *)
(* interleave.  A request in flight holds what its handler has read.       *)
(***************************************************************************)
Slots == 1..MaxInFlight

FreeSlot(n) == \A r \in pending : r.slot # n

InFlight(n, op, user_id, bbox_id, box, data_type) ==
  [slot |-> n, op |-> op, user_id |-> user_id, bbox_id |-> bbox_id, box |-> box,
   data_type |-> data_type]

\* POST /bbox_form up to the quota test (bbox.py:73-90)
bbox_form_check(n, user, top_left_lat, top_left_lon, bottom_right_lat, bottom_right_lon) ==
  LET bbox == <<top_left_lat, top_left_lon, bottom_right_lat, bottom_right_lon>>
      db_user == get_user_by_email(user.email)
  IN /\ FreeSlot(n)
     /\ UNCHANGED <<dbVars, last_set, w, w_other, auth, session, feed>>
     /\ IF ~is_valid_bbox(bbox[1], bbox[2], bbox[3], bbox[4])
        THEN /\ resp' = [op |-> "bbox_form", user_id |-> user.id, box |-> bbox,
                         alert |-> InvalidAlert]
             /\ UNCHANGED pending
        ELSE IF Cardinality(get_user_bboxes(db_user.id)) > MAX_BOXES_PER_USER
        THEN /\ resp' = [op |-> "bbox_form", user_id |-> user.id, box |-> bbox,
                         alert |-> QuotaAlert]
             /\ UNCHANGED pending
        ELSE /\ pending' = pending \cup
                  {InFlight(n, "bbox_form", db_user.id, 0, bbox, None)}
             /\ UNCHANGED resp

\* POST /bbox_form from crud.create_user_bbox on (bbox.py:92-100)
bbox_form_insert(n) ==
  \E r \in pending :
    /\ r.slot = n
    /\ r.op = "bbox_form"
    /\ bboxes' = bboxes \cup {NewBBox(r.box, r.user_id)}
    /\ next_id' = [next_id EXCEPT !.bboxes = @ + 1]
    /\ resp' = [op |-> "bbox_form", user_id |-> r.user_id, box |-> r.box,
                alert |-> CreatedAlert]
    /\ pending' = pending \ {r}
    /\ UNCHANGED <<users, data_types, cache, orders, last_set, w, w_other, auth,
                   session, feed>>

(***************************************************************************)
(* SpecQuota: one registered user without boxes submits the box form, with *)
(* valid and invalid boxes, in requests that overlap in time.              *)
(***************************************************************************)
InitQuota ==
  /\ users = Registered(1)
  /\ bboxes = {}
  /\ data_types = SeededCatalog
  /\ cache = EmptyBag
  /\ orders = {}
  /\ next_id = [users |-> 2, bboxes |-> 1, data_types |-> 4, orders |-> 1]
  /\ last_set = [p \in PairIds |-> NoCall]
  /\ resp = [op |-> "init"]
  /\ w = WorkerIdle
  /\ auth = AuthIdle
  /\ session = NoSession
  /\ w_other = WorkerIdle
  /\ feed = NoFeed
  /\ pending = {}

NextQuota ==
  \/ \E n \in Slots, user \in users, lat \in {<<80>>, <<85>>, <<91>>} :
       bbox_form_check(n, user, <<90>>, <<-180>>, lat, <<-170>>)
  \/ \E n \in Slots : bbox_form_insert(n)

SpecQuota == InitQuota /\ [][NextQuota]_vars

(***************************************************************************)
(* C27. The number of boxes a user owns never exceeds 6, also when two     *)
(* submissions of the box form by the same user interleave between the     *)
(* quota test and the insert.                                              *)
(***************************************************************************)
C27_NeverMoreThanSix ==
  \A u \in users : OwnedBy(bboxes, u.id) <= MAX_BOXES_PER_USER + 1

(***************************************************************************)
(* Order submission as a request in flight: the handler reads the box and  *)
(* tests the owner in one step, and calls NOAA and writes the row in a     *)
(* later one; the database may change in between.                          *)
(***************************************************************************)
\* POST /order up to the owner test (noaa.py:97-113); a request that fails a
\* test is answered at once, as in order
order_check(n, bbox_id, data_type, user, hx_request) ==
  /\ FreeSlot(n)
  /\ UNCHANGED <<w, w_other, auth, session, feed>>
  /\ IF /\ hx_request
        /\ data_type \in {"csb", "multibeam"}
        /\ \E b \in bboxes : b.id = bbox_id /\ b.owner_id = user.id
     THEN /\ pending' = pending \cup
               {InFlight(n, "order", user.id, bbox_id, <<>>, data_type)}
          /\ UNCHANGED <<dbVars, last_set, resp>>
     ELSE /\ order(bbox_id, data_type, user, hx_request)
          /\ UNCHANGED pending

\* POST /order from send_order_to_noaa on (noaa.py:115-134); the commit of
\* crud.create_data_order raises IntegrityError when the box is gone
\* (models.DataOrder.bbox_id is a ForeignKey("bboxes.id"))
order_send(n) ==
  \E p \in pending, r \in OrderReplies :
    LET user == [id |-> p.user_id] IN
    /\ p.slot = n
    /\ p.op = "order"
    /\ pending' = pending \ {p}
    /\ UNCHANGED <<users, bboxes, data_types, cache, last_set, w, w_other, auth,
                   session, feed>>
    /\ IF r.kind # "ok"
       THEN /\ resp' = OrderResp(500, "Error sending order to NOAA", p.bbox_id,
                                 p.data_type, user, TRUE, <<r>>)
            /\ UNCHANGED <<orders, next_id>>
       ELSE IF ~r.url
       THEN /\ resp' = OrderResp(500, "KeyError", p.bbox_id, p.data_type, user,
                                 TRUE, <<r>>)
            /\ UNCHANGED <<orders, next_id>>
       ELSE IF ForeignKeyViolation(bboxes, p.bbox_id)
       THEN /\ resp' = OrderResp(500, "IntegrityError", p.bbox_id, p.data_type, user,
                                 TRUE, <<r>>)
            /\ UNCHANGED <<orders, next_id>>
       ELSE /\ orders' = orders \cup {NewDataOrder(p.user_id, p.bbox_id, p.data_type)}
            /\ next_id' = [next_id EXCEPT !.orders = @ + 1]
            /\ resp' = IF r.message
                         THEN OrderResp(200, None, p.bbox_id, p.data_type, user,
                                        TRUE, <<r>>)
                         ELSE OrderResp(500, "KeyError", p.bbox_id, p.data_type, user,
                                        TRUE, <<r>>)

(***************************************************************************)
(* SpecIntegrity: one user with one box, and the seeded catalog; the owner *)
(* deletes the box while one run of the worker sweeps the boxes it listed  *)
(* and while an order is in flight.                                        *)
(***************************************************************************)
InitIntegrity ==
  /\ users = Registered(1)
  /\ bboxes = {[id |-> 1, owner_id |-> 1, box |-> GoodBox]}
  /\ data_types = SeededCatalog
  /\ cache = EmptyBag
  /\ orders = {}
  /\ next_id = [users |-> 2, bboxes |-> 2, data_types |-> 4, orders |-> 1]
  /\ last_set = [p \in PairIds |-> NoCall]
  /\ resp = [op |-> "init"]
  /\ w = WorkerIdle
  /\ auth = AuthIdle
  /\ session = NoSession
  /\ w_other = WorkerIdle
  /\ feed = NoFeed
  /\ pending = {}

NextIntegrity ==
  \/ \E b \in bboxes : delete_user_bbox(b.id, b.owner_id) /\ UNCHANGED procVars
  \/ w.pc = "idle" /\ main_start /\ UNCHANGED <<auth, session, w_other, feed, pending>>
  \/ check_lookup /\ UNCHANGED <<auth, session, w_other, feed, pending>>
  \/ check_fetch /\ UNCHANGED <<auth, session, w_other, feed, pending>>
  \/ send_notifications /\ UNCHANGED <<auth, session, w_other, feed, pending>>
  \/ \E n \in Slots, bbox_id \in 1..MaxBBoxId, data_type \in {"csb", "nos_survey"},
        user \in users, hx_request \in BOOLEAN :
       /\ next_id.orders <= MaxPlaced
       /\ pending = {}
       /\ order_check(n, bbox_id, data_type, user, hx_request)
  \/ \E n \in Slots : order_send(n)

SpecIntegrity == InitIntegrity /\ [][NextIntegrity]_vars

(***************************************************************************)
(* C28. In every reachable state every cache row and every data order      *)
(* references a box that exists, also when the owner's delete of a box     *)
(* interleaves with a sweep of the worker that has listed the box or with  *)
(* an order for it that has passed the owner test.                         *)
(***************************************************************************)
C28_ReferencesExist ==
  /\ \A r \in BagToSet(cache) : \E b \in bboxes : b.id = r.bbox_id
  /\ \A o \in orders : \E b \in bboxes : b.id = o.bbox_id

\* the worker had listed a box, its owner deleted it, and the upsert of the
\* sweep for the box was refused
C28_Witness ==
  /\ resp.op = "set_last_cached_date"
  /\ resp.error = "IntegrityError"
  /\ w.pc = "crashed"
  /\ \A b \in bboxes : b.id # resp.bbox_id

\* an order passed the owner test, the box was deleted, and the row of the
\* order was refused
C28_WitnessOrder ==
  /\ resp.op = "order"
  /\ resp.detail = "IntegrityError"
  /\ orders = {}

(***************************************************************************)
(* C29. A finding for a box is only ever in the bucket of the owner of the *)
(* box, and every email of a run is addressed to the user who owns every   *)
(* box the email mentions.                                                 *)
(***************************************************************************)
\* the box with this id belongs to this user
OwnsBox(user_id, bbox_id) ==
  \E b \in bboxes : b.id = bbox_id /\ b.owner_id = user_id

C29_FindingsGoToOwner ==
  /\ \A k \in 1..Len(w.notifications_by_user) :
       \A m \in 1..Len(w.notifications_by_user[k].notifications) :
         OwnsBox(w.notifications_by_user[k].user_id,
                 w.notifications_by_user[k].notifications[m].bbox_id)
  /\ \A k \in 1..Len(w.emails) :
       \A m \in 1..Len(w.emails[k].notifications) :
         \E u \in users :
           /\ u.email = w.emails[k].to
           /\ OwnsBox(u.id, w.emails[k].notifications[m].bbox_id)

\* two users are registered, the second owns the first box, and the sweep
\* has put a finding for the box in a bucket
C29_Witness ==
  /\ Cardinality(users) = 2
  /\ \E b \in bboxes : b.id = 1 /\ b.owner_id = 2
  /\ w.notifications_by_user # <<>>
  /\ w.notifications_by_user[1].notifications[1].bbox_id = 1

\* both users of a run with two buckets have been sent their email
C29_WitnessSent ==
  /\ Len(w.emails) = 2
  /\ w.emails[1].to # w.emails[2].to

(***************************************************************************)
(* SpecOwner: two registered users with one box each submit orders for     *)
(* every box id and poll the status of every order id, their own and the   *)
(* other's, and delete their boxes.                                        *)
(***************************************************************************)
NextOwner ==
  \/ \E bbox_id \in 1..(MaxBBoxId + 1), data_type \in OrderDataTypes, user \in users,
        hx_request \in BOOLEAN :
       /\ next_id.orders <= MaxPlaced
       /\ order(bbox_id, data_type, user, hx_request)
       /\ UNCHANGED procVars
  \/ \E order_id \in 1..(MaxPlaced + 1), user \in users, hx_request \in BOOLEAN :
       order_status(order_id, user, hx_request) /\ UNCHANGED procVars
  \/ \E b \in bboxes : delete_user_bbox(b.id, b.owner_id) /\ UNCHANGED procVars

SpecOwner == InitOrder /\ [][NextOwner]_vars

(***************************************************************************)
(* C30. The user_id of every data order is the owner_id of the box the     *)
(* order references, and order_status polls, changes or shows the status   *)
(* of an order only for that user: a partial-page request for an unknown   *)
(* order id gets 404 and one for an order of another user gets 403, both   *)
(* with no call to NOAA and the orders unchanged.                          *)
(***************************************************************************)
OwnerOutcome ==
  /\ \A o \in orders' :
       \E b \in bboxes' : b.id = o.bbox_id /\ b.owner_id = o.user_id
  /\ (resp'.op = "order_status" /\ resp'.status # 307) =>
       LET known == {o \in orders : o.id = resp'.order_id} IN
       /\ known = {} =>
            resp'.status = 404 /\ ~resp'.polled /\ orders' = orders
       /\ (\E o \in known : o.user_id # resp'.user_id) =>
            resp'.status = 403 /\ ~resp'.polled /\ orders' = orders
       /\ (resp'.polled \/ orders' # orders \/ resp'.status \in {200, 286}) =>
            \E o \in known : o.user_id = resp'.user_id

C30_OrderBelongsToBoxOwner == [][OwnerOutcome]_vars

\* a user asked for the status of an order the other user placed through
\* POST /order for a box of their own, and was refused
C30_Witness ==
  /\ resp.op = "order_status"
  /\ resp.status = 403
  /\ ~resp.polled
  /\ \E o \in orders :
       /\ o.id = resp.order_id
       /\ o.user_id # resp.user_id
       /\ OwnsBox(o.user_id, o.bbox_id)

====
